---------------------------- MODULE Spec2Model ----------------------------
(***************************************************************************)
(* Contact solver of box2d.ts (b2_contact_solver.ts): Initialize,          *)
(* InitializeVelocityConstraints, WarmStart, SolveVelocityConstraints,     *)
(* StoreImpulses, SolvePositionConstraints, SolveTOIPositionConstraints.   *)
(*                                                                         *)
(* Numbers.  The code computes with JavaScript numbers.  The model         *)
(* computes with exact rationals <<n, d>> in lowest terms, d > 0.  A       *)
(* value whose numerator or denominator leaves -MaxNum..MaxNum, a square   *)
(* root that is not rational and the sine or cosine of an angle that is no *)
(* whole number of quarter turns are not representable: they are NaR, NaR  *)
(* propagates through every operation, and an operation whose result       *)
(* holds a NaR is not taken (the model does not explore that run).         *)
(***************************************************************************)
EXTENDS Integers, Sequences, FiniteSets, TLC

\* ------------------------------------------------------------------ bounds

\* Largest numerator and denominator of a representable number.
MaxNum == 30000
\* Velocity passes per step, and steps solved per run (a further Initialize
\* begins the step after them).
MaxPasses == 2
MaxSteps == 2
\* Position passes per run.
MaxPosPasses == 2

\* ------------------------------------------------------- rational numbers

Abs(i) == IF i < 0 THEN -i ELSE i

RECURSIVE Gcd(_, _)
Gcd(a, b) == IF b = 0 THEN a ELSE Gcd(b, a % b)

NaR == <<0, 0>>
IsNum(x) == x[2] > 0

\* n/d in lowest terms, for d > 0.
Frac(n, d) ==
    LET g == Gcd(Abs(n), d)
        nn == n \div g
        dd == d \div g
    IN  IF Abs(nn) > MaxNum \/ dd > MaxNum THEN NaR ELSE <<nn, dd>>

R(i) == <<i, 1>>
Zero == <<0, 1>>
One == <<1, 1>>

RNeg(x) == IF IsNum(x) THEN <<-x[1], x[2]>> ELSE NaR

RAdd(x, y) ==
    IF ~IsNum(x) \/ ~IsNum(y) THEN NaR
    ELSE IF x[1] = 0 THEN y
    ELSE IF y[1] = 0 THEN x
    ELSE LET g == Gcd(x[2], y[2])
         IN  Frac(x[1] * (y[2] \div g) + y[1] * (x[2] \div g), (x[2] \div g) * y[2])

RSub(x, y) == RAdd(x, RNeg(y))

RMul(x, y) ==
    IF ~IsNum(x) \/ ~IsNum(y) THEN NaR
    ELSE IF x[1] = 0 \/ y[1] = 0 THEN Zero
    ELSE LET g1 == Gcd(Abs(x[1]), y[2])
             g2 == Gcd(Abs(y[1]), x[2])
             n == (x[1] \div g1) * (y[1] \div g2)
             d == (x[2] \div g2) * (y[2] \div g1)
         IN  IF Abs(n) > MaxNum \/ d > MaxNum THEN NaR ELSE <<n, d>>

\* 1 / x; the code divides only by numbers it has tested to be non-zero.
RInv(x) ==
    IF ~IsNum(x) \/ x[1] = 0 THEN NaR
    ELSE IF x[1] > 0 THEN <<x[2], x[1]>> ELSE <<-x[2], -x[1]>>

RDiv(x, y) == RMul(x, RInv(y))

\* Comparisons; a comparison with NaR is FALSE and its operands are kept in
\* the result of the operation that made it, so the run is dropped.
RLt(x, y) == IsNum(x) /\ IsNum(y) /\ x[1] * y[2] < y[1] * x[2]
RLe(x, y) == IsNum(x) /\ IsNum(y) /\ x[1] * y[2] <= y[1] * x[2]
RGt(x, y) == RLt(y, x)
RGe(x, y) == RLe(y, x)

RAbs(x) == IF IsNum(x) THEN <<Abs(x[1]), x[2]>> ELSE NaR

\* Math.max, Math.min
RMax(x, y) == IF ~IsNum(x) \/ ~IsNum(y) THEN NaR ELSE IF RLt(x, y) THEN y ELSE x
RMin(x, y) == IF ~IsNum(x) \/ ~IsNum(y) THEN NaR ELSE IF RLt(y, x) THEN y ELSE x

\* b2Clamp(a, lo, hi): a < lo ? lo : a > hi ? hi : a
b2Clamp(a, lo, hi) ==
    IF ~IsNum(a) \/ ~IsNum(lo) \/ ~IsNum(hi) THEN NaR
    ELSE IF RLt(a, lo) THEN lo ELSE IF RGt(a, hi) THEN hi ELSE a

\* The r of lo..hi with r * r = n, 0 when there is none: by bisection.
RECURSIVE RootBetween(_, _, _)
RootBetween(n, lo, hi) ==
    IF lo > hi THEN 0
    ELSE LET mid == (lo + hi) \div 2
         IN  IF mid * mid = n THEN mid
             ELSE IF mid * mid < n THEN RootBetween(n, mid + 1, hi)
             ELSE RootBetween(n, lo, mid - 1)

\* Integer square root of a perfect square, 0 when n is none.
IRoot(n, k) == RootBetween(n, k, n)

\* Math.sqrt, exact: NaR when the root is not rational.
RSqrt(x) ==
    IF ~IsNum(x) \/ x[1] < 0 THEN NaR
    ELSE IF x[1] = 0 THEN Zero
    ELSE LET rn == IRoot(x[1], 1)
             rd == IRoot(x[2], 1)
         IN  IF rn = 0 \/ rd = 0 THEN NaR ELSE <<rn, rd>>

\* ---------------------------------------------------------------- b2Vec2

Vec(x, y) == <<R(x), R(y)>>
VZero == <<Zero, Zero>>
VNaR == <<NaR, NaR>>
VIsNum(v) == IsNum(v[1]) /\ IsNum(v[2])

VAdd(a, b) == <<RAdd(a[1], b[1]), RAdd(a[2], b[2])>>
VSub(a, b) == <<RSub(a[1], b[1]), RSub(a[2], b[2])>>
VScale(s, v) == <<RMul(s, v[1]), RMul(s, v[2])>>
VNeg(v) == <<RNeg(v[1]), RNeg(v[2])>>
\* v.AddScaled(s, b), v.SubtractScaled(s, b)
VAddScaled(v, s, b) == VAdd(v, VScale(s, b))
VSubScaled(v, s, b) == VSub(v, VScale(s, b))
Dot(a, b) == RAdd(RMul(a[1], b[1]), RMul(a[2], b[2]))
\* b2Vec2.Cross(a, b) = a.x * b.y - a.y * b.x
Cross(a, b) == RSub(RMul(a[1], b[2]), RMul(a[2], b[1]))
\* b2Vec2.CrossVec2One(v) = (v.y, -v.x)
CrossVec2One(v) == <<v[2], RNeg(v[1])>>
\* b2Vec2.AddCrossScalarVec2(a, s, v) = a + (-s * v.y, s * v.x)
AddCrossScalarVec2(a, s, v) == <<RSub(a[1], RMul(s, v[2])), RAdd(a[2], RMul(s, v[1]))>>
\* b2Vec2.Mid(a, b)
VMid(a, b) == VScale(<<1, 2>>, VAdd(a, b))
\* v.Normalize(): a vector shorter than b2_epsilon is left as it is.  Every
\* representable non-zero length is above b2_epsilon = 1e-5.
VNormalize(v) ==
    LET len == RSqrt(Dot(v, v))
    IN  IF ~IsNum(len) THEN VNaR
        ELSE IF len[1] = 0 THEN v
        ELSE VScale(RInv(len), v)


\* b2Mat22, columns ex and ey
Mat(ex, ey) == [ex |-> ex, ey |-> ey]
MatZero == Mat(VZero, VZero)
MatIsNum(M) == VIsNum(M.ex) /\ VIsNum(M.ey)
\* b2Mat22.MultiplyVec2(M, v)
MatMulVec2(M, v) ==
    <<RAdd(RMul(M.ex[1], v[1]), RMul(M.ey[1], v[2])),
      RAdd(RMul(M.ex[2], v[1]), RMul(M.ey[2], v[2]))>>
\* M.GetInverse(): the zero matrix's entries times det when det = 0
MatGetInverse(M) ==
    LET a == M.ex[1]
        b == M.ey[1]
        c == M.ex[2]
        d == M.ey[2]
        det0 == RSub(RMul(a, d), RMul(b, c))
        det == IF IsNum(det0) /\ det0[1] # 0 THEN RInv(det0) ELSE det0
    IN  Mat(<<RMul(det, d), RNeg(RMul(det, c))>>, <<RNeg(RMul(det, b)), RMul(det, a)>>)

\* ------------------------------------------------------ b2Rot, b2Transform

\* An angle is q quarter turns plus r radians.  Its sine and cosine are
\* representable when r = 0.
Angle(q, r) == [q |-> q, r |-> r]
AngleAdd(a, d) == [a EXCEPT !.r = RAdd(a.r, d)]
AngleSub(a, d) == [a EXCEPT !.r = RSub(a.r, d)]
AngleIsNum(a) == IsNum(a.r)

\* b2Rot.Set(angle): s = sin(angle), c = cos(angle)
Rot(a) ==
    IF ~IsNum(a.r) \/ a.r[1] # 0 THEN [s |-> NaR, c |-> NaR]
    ELSE LET k == a.q % 4
         IN  [s |-> R(IF k = 1 THEN 1 ELSE IF k = 3 THEN -1 ELSE 0),
              c |-> R(IF k = 0 THEN 1 ELSE IF k = 2 THEN -1 ELSE 0)]

\* b2Rot.MultiplyVec2(q, v)
RotMulVec2(q, v) ==
    <<RSub(RMul(q.c, v[1]), RMul(q.s, v[2])), RAdd(RMul(q.s, v[1]), RMul(q.c, v[2]))>>

\* b2Transform.MultiplyVec2(xf, v)
TransformMulVec2(xf, v) == VAdd(RotMulVec2(xf.q, v), xf.p)

\* The transform of a body from its centre of mass c, its angle a and its
\* local centre: q.Set(a); p = c - q * localCenter
BodyTransform(c, a, localCenter) ==
    LET q == Rot(a)
    IN  [q |-> q, p |-> VSub(c, RotMulVec2(q, localCenter))]

\* ------------------------------------------------------- program constants

\* b2_common.ts
b2_linearSlop == <<1, 200>>
b2_maxLinearCorrection == <<1, 5>>
b2_baumgarte == <<1, 5>>
b2_toiBaumgarte == <<3, 4>>
b2_maxManifoldPoints == 2
\* k_maxConditionNumber of InitializeVelocityConstraints
k_maxConditionNumber == 1000

\* b2ManifoldType
e_circles == "e_circles"
e_faceA == "e_faceA"
e_faceB == "e_faceB"

\* ------------------------------------------------------------ the records

\* b2ManifoldPoint
ManifoldPoint(localPoint, normalImpulse, tangentImpulse) ==
    [localPoint |-> localPoint, normalImpulse |-> normalImpulse,
     tangentImpulse |-> tangentImpulse]

\* b2Manifold
Manifold(type, localNormal, localPoint, points, pointCount) ==
    [type |-> type, localNormal |-> localNormal, localPoint |-> localPoint,
     points |-> points, pointCount |-> pointCount]

\* new b2VelocityConstraintPoint()
NewVelocityConstraintPoint ==
    [rA |-> VZero, rB |-> VZero, normalImpulse |-> Zero, tangentImpulse |-> Zero,
     normalMass |-> Zero, tangentMass |-> Zero, velocityBias |-> Zero]

\* new b2ContactVelocityConstraint()
NewContactVelocityConstraint ==
    [points |-> <<NewVelocityConstraintPoint, NewVelocityConstraintPoint>>,
     normal |-> VZero, tangent |-> VZero, normalMass |-> MatZero, K |-> MatZero,
     indexA |-> 0, indexB |-> 0, invMassA |-> Zero, invMassB |-> Zero,
     invIA |-> Zero, invIB |-> Zero, friction |-> Zero, restitution |-> Zero,
     threshold |-> Zero, tangentSpeed |-> Zero, pointCount |-> 0, contactIndex |-> 0]

\* new b2ContactPositionConstraint()
NewContactPositionConstraint ==
    [localPoints |-> <<VZero, VZero>>, localNormal |-> VZero, localPoint |-> VZero,
     indexA |-> 0, indexB |-> 0, invMassA |-> Zero, invMassB |-> Zero,
     localCenterA |-> VZero, localCenterB |-> VZero, invIA |-> Zero, invIB |-> Zero,
     type |-> e_circles, radiusA |-> Zero, radiusB |-> Zero, pointCount |-> 0]

\* The static members the solvers of all islands share, as the classes make
\* them: b2Vec2.s_t0 and s_t1, WarmStart_s_P, the eleven vectors of
\* SolveVelocityConstraints, the transforms, solver manifold and vectors of
\* SolvePositionConstraints, the four points of
\* b2PositionSolverManifold.Initialize and the transforms and world manifold
\* of InitializeVelocityConstraints.
NewTransform == [q |-> [s |-> Zero, c |-> One], p |-> VZero]
NewScratch ==
    [t0 |-> VZero, t1 |-> VZero, wsP |-> VZero,
     dv |-> VZero, dv1 |-> VZero, dv2 |-> VZero, P |-> VZero, a |-> VZero, b |-> VZero,
     x |-> VZero, d |-> VZero, P1 |-> VZero, P2 |-> VZero, P1P2 |-> VZero,
     xfA |-> NewTransform, xfB |-> NewTransform,
     psm |-> [normal |-> VZero, point |-> VZero, separation |-> Zero],
     rA |-> VZero, rB |-> VZero, posP |-> VZero,
     pointA |-> VZero, pointB |-> VZero, planePoint |-> VZero, clipPoint |-> VZero,
     ixfA |-> NewTransform, ixfB |-> NewTransform,
     worldManifold |-> [normal |-> VZero, points |-> <<VZero, VZero>>]]

\* ------------------------------------------------- b2ContactSolver.Initialize

\* The manifold's impulse as it was stored.
StoredImpulse(step, stored) == stored

\* The starting impulse of a point: the manifold's, scaled, when warm
\* starting, else 0.
WarmStartImpulse(step, stored) ==
    IF step.warmStarting THEN RMul(step.dtRatio, stored) ELSE Zero

\* The body of the loop over the manifold's points.
InitializePoint(vcp, cp, step) ==
    [vcp EXCEPT !.normalImpulse = WarmStartImpulse(step, cp.normalImpulse),
                !.tangentImpulse = WarmStartImpulse(step, cp.tangentImpulse),
                !.rA = VZero, !.rB = VZero,
                !.normalMass = Zero, !.tangentMass = Zero, !.velocityBias = Zero]

\* The length of an array that holds fewer than count elements, as the
\* mutation that grows it to count alone makes it.
GrownToCount(length, count) == IF length < count THEN count ELSE length

\* The length Initialize leaves an array of this length with: doubled, or
\* count where that is more, when it holds fewer than count elements.
GrownLength(length, count) ==
    IF length < count
    THEN IF 2 * length > count THEN 2 * length ELSE count
    ELSE length

\* The array with new elements appended up to that length.
Grown(array, count, new) ==
    [i \in 1..GrownLength(Len(array), count) |->
        IF i <= Len(array) THEN array[i] ELSE new]

\* A pointCount that stays 1 once a step has reduced it.
KeptPointCount(vc, manifold) ==
    IF vc.pointCount = 1 THEN 1 ELSE manifold.pointCount

\* vc.pointCount = pointCount, the manifold's
ManifoldPointCount(vc, manifold) == manifold.pointCount

\* The velocity constraint of contact i: points at and after the manifold's
\* pointCount keep what an earlier step left in them.
InitializeVC(vc, i, contact, bodyA, bodyB, manifold, step) ==
    [vc EXCEPT !.friction = contact.friction,
               !.restitution = contact.restitution,
               !.threshold = contact.restitutionThreshold,
               !.tangentSpeed = contact.tangentSpeed,
               !.indexA = contact.bodyA,
               !.indexB = contact.bodyB,
               !.invMassA = bodyA.invMass,
               !.invMassB = bodyB.invMass,
               !.invIA = bodyA.invI,
               !.invIB = bodyB.invI,
               !.contactIndex = i,
               !.pointCount = ManifoldPointCount(vc, manifold),
               !.K = MatZero,
               !.normalMass = MatZero,
               !.points = [j \in 1..b2_maxManifoldPoints |->
                              IF j <= manifold.pointCount
                              THEN InitializePoint(vc.points[j], manifold.points[j], step)
                              ELSE vc.points[j]]]

\* The position constraint of contact i.
InitializePC(pc0, contact, bodyA, bodyB, manifold) ==
    [pc0 EXCEPT !.indexA = contact.bodyA,
                !.indexB = contact.bodyB,
                !.invMassA = bodyA.invMass,
                !.invMassB = bodyB.invMass,
                !.localCenterA = bodyA.localCenter,
                !.localCenterB = bodyB.localCenter,
                !.invIA = bodyA.invI,
                !.invIB = bodyB.invI,
                !.localNormal = manifold.localNormal,
                !.localPoint = manifold.localPoint,
                !.pointCount = manifold.pointCount,
                !.radiusA = contact.radiusA,
                !.radiusB = contact.radiusB,
                !.type = manifold.type,
                !.localPoints = [j \in 1..b2_maxManifoldPoints |->
                                    IF j <= manifold.pointCount
                                    THEN manifold.points[j].localPoint
                                    ELSE pc0.localPoints[j]]]

\* ------------------------------ b2ContactSolver.InitializeVelocityConstraints

\* kNormal > 0 ? 1 / kNormal : 0
InverseOrZero(k) ==
    IF ~IsNum(k) THEN NaR ELSE IF RGt(k, Zero) THEN RInv(k) ELSE Zero

\* mA + mB + iA * rnA * rnB' + ... : the entry of K for two arms
KEntry(vc, rn1A, rn1B, rn2A, rn2B) ==
    RAdd(RAdd(vc.invMassA, vc.invMassB),
         RAdd(RMul(vc.invIA, RMul(rn1A, rn2A)), RMul(vc.invIB, RMul(rn1B, rn2B))))

\* The relative velocity of the two bodies at a point with arms rA and rB.
RelativeVelocity(vA, wA, vB, wB, rA, rB) ==
    VSub(AddCrossScalarVec2(vB, wB, rB), AddCrossScalarVec2(vA, wA, rA))

\* vRel < -threshold ? -restitution * vRel : 0
RestitutionBias(vc, vRel) ==
    IF ~IsNum(vRel) THEN NaR
    ELSE IF RLt(vRel, RNeg(vc.threshold)) THEN RMul(RNeg(vc.restitution), vRel)
    ELSE Zero

\* The body of the loop over the points; vc.normal and vc.tangent are set.
InitVelocityPoint(vc, vcp, point, cA, cB, velA, velB) ==
    LET rA == VSub(point, cA)
        rB == VSub(point, cB)
        rnA == Cross(rA, vc.normal)
        rnB == Cross(rB, vc.normal)
        kNormal == KEntry(vc, rnA, rnB, rnA, rnB)
        rtA == Cross(rA, vc.tangent)
        rtB == Cross(rB, vc.tangent)
        kTangent == KEntry(vc, rtA, rtB, rtA, rtB)
        vRel == Dot(vc.normal, RelativeVelocity(velA.v, velA.w, velB.v, velB.w, rA, rB))
    IN  [vcp EXCEPT !.rA = rA, !.rB = rB,
                    !.normalMass = InverseOrZero(kNormal),
                    !.tangentMass = InverseOrZero(kTangent),
                    !.velocityBias = RestitutionBias(vc, vRel)]

\* The test without the coupling of the two points.
UncoupledCondition(k11, k12, k22) ==
    RLt(RMul(k11, k11), RMul(R(k_maxConditionNumber), RMul(k11, k22)))

\* k11 * k11 < k_maxConditionNumber * (k11 * k22 - k12 * k12)
WellConditioned(k11, k12, k22) ==
    RLt(RMul(k11, k11),
        RMul(R(k_maxConditionNumber), RSub(RMul(k11, k22), RMul(k12, k12))))

\* Whether the three numbers and the two sides of the test are representable.
ConditionIsNum(k11, k12, k22) ==
    /\ IsNum(RMul(k11, k11))
    /\ IsNum(RMul(R(k_maxConditionNumber), RSub(RMul(k11, k22), RMul(k12, k12))))

\* If we have two points, then prepare the block solver.
PrepareBlock(vc, blockSolve) ==
    IF vc.pointCount = 2 /\ blockSolve
    THEN LET vcp1 == vc.points[1]
             vcp2 == vc.points[2]
             rn1A == Cross(vcp1.rA, vc.normal)
             rn1B == Cross(vcp1.rB, vc.normal)
             rn2A == Cross(vcp2.rA, vc.normal)
             rn2B == Cross(vcp2.rB, vc.normal)
             k11 == KEntry(vc, rn1A, rn1B, rn1A, rn1B)
             k22 == KEntry(vc, rn2A, rn2B, rn2A, rn2B)
             k12 == KEntry(vc, rn1A, rn1B, rn2A, rn2B)
             K == Mat(<<k11, k12>>, <<k12, k22>>)
         IN  IF ~ConditionIsNum(k11, k12, k22)
             THEN [vc EXCEPT !.K = Mat(VNaR, VNaR)]
             ELSE IF WellConditioned(k11, k12, k22)
             THEN [vc EXCEPT !.K = K, !.normalMass = MatGetInverse(K)]
             ELSE [vc EXCEPT !.pointCount = 1]
    ELSE vc

\* One contact: wm is its world manifold (normal and points), computed by
\* b2WorldManifold.Initialize from the manifold and the two transforms.
InitVelocityContact(vc, wm, posA, posB, velA, velB, blockSolve) ==
    LET vc1 == [vc EXCEPT !.normal = wm.normal, !.tangent = CrossVec2One(wm.normal)]
        vc2 == [vc1 EXCEPT !.points =
                   [j \in 1..b2_maxManifoldPoints |->
                       IF j <= vc1.pointCount
                       THEN InitVelocityPoint(vc1, vc1.points[j], wm.points[j],
                                              posA.c, posB.c, velA, velB)
                       ELSE vc1.points[j]]]
    IN  PrepareBlock(vc2, blockSolve)

\* ---------------------------------------------- the two bodies of a contact

\* vA, wA, vB, wB of the loops over the contacts.
Local(velA, velB) == [vA |-> velA.v, wA |-> velA.w, vB |-> velB.v, wB |-> velB.w]
LocalIsNum(loc) == VIsNum(loc.vA) /\ IsNum(loc.wA) /\ VIsNum(loc.vB) /\ IsNum(loc.wB)

\* The impulse applied to body A as to a body of mass 1.
ApplyImpulseToUnitMass(vc, loc, rA, rB, P) ==
    [vA |-> VSub(loc.vA, P),
     wA |-> RSub(loc.wA, RMul(vc.invIA, Cross(rA, P))),
     vB |-> VAddScaled(loc.vB, vc.invMassB, P),
     wB |-> RAdd(loc.wB, RMul(vc.invIB, Cross(rB, P)))]

\* vA -= mA * P; wA -= iA * Cross(rA, P); vB += mB * P; wB += iB * Cross(rB, P)
ApplyImpulse(vc, loc, rA, rB, P) ==
    [vA |-> VSubScaled(loc.vA, vc.invMassA, P),
     wA |-> RSub(loc.wA, RMul(vc.invIA, Cross(rA, P))),
     vB |-> VAddScaled(loc.vB, vc.invMassB, P),
     wB |-> RAdd(loc.wB, RMul(vc.invIB, Cross(rB, P)))]

\* The impulses P1 at point 1 and P2 at point 2, applied together.
ApplyBlockImpulse(vc, loc, cp1, cp2, P1, P2) ==
    LET P1P2 == VAdd(P1, P2)
    IN  [vA |-> VSubScaled(loc.vA, vc.invMassA, P1P2),
         wA |-> RSub(loc.wA, RMul(vc.invIA, RAdd(Cross(cp1.rA, P1), Cross(cp2.rA, P2)))),
         vB |-> VAddScaled(loc.vB, vc.invMassB, P1P2),
         wB |-> RAdd(loc.wB, RMul(vc.invIB, RAdd(Cross(cp1.rB, P1), Cross(cp2.rB, P2))))]

\* The loop over the points of a contact: Step(vc, loc, j) gives the record
\* [vc, loc] after point j.
RECURSIVE ForPoints(_, _, _, _, _)
ForPoints(Step(_, _, _), vc, loc, j, n) ==
    IF j > n THEN [vc |-> vc, loc |-> loc]
    ELSE LET r == Step(vc, loc, j) IN ForPoints(Step, r.vc, r.loc, j + 1, n)

\* --------------------------------------------------- b2ContactSolver.WarmStart

\* A warm start that spends the impulses it applies.
WarmStartSpending(vc, loc, j) ==
    [vc |-> [vc EXCEPT !.points[j].normalImpulse = Zero,
                       !.points[j].tangentImpulse = Zero],
     loc |-> ApplyImpulse(vc, loc, vc.points[j].rA, vc.points[j].rB,
                 VAdd(VScale(vc.points[j].normalImpulse, vc.normal),
                      VScale(vc.points[j].tangentImpulse, vc.tangent)))]

\* The body of the loop over the points: P = normalImpulse * normal +
\* tangentImpulse * tangent, applied to the two bodies.
WarmStartPoint(vc, loc, j) ==
    [vc |-> vc,
     loc |-> ApplyImpulse(vc, loc, vc.points[j].rA, vc.points[j].rB,
                 VAdd(VScale(vc.points[j].normalImpulse, vc.normal),
                      VScale(vc.points[j].tangentImpulse, vc.tangent)))]

WarmStartContact(vc, loc) == ForPoints(WarmStartPoint, vc, loc, 1, vc.pointCount)

\* ------------------------------------ b2ContactSolver.SolveVelocityConstraints

\* The friction step without its clamp.
UnclampedFriction(tangentImpulse, lambda, maxFriction) == RAdd(tangentImpulse, lambda)

\* b2Clamp(tangentImpulse + lambda, -maxFriction, maxFriction)
ClampFriction(tangentImpulse, lambda, maxFriction) ==
    b2Clamp(RAdd(tangentImpulse, lambda), RNeg(maxFriction), maxFriction)

\* The normal step without its clamp.
UnclampedNormal(normalImpulse, lambda) == RAdd(normalImpulse, lambda)

\* Math.max(normalImpulse + lambda, 0)
ClampNormal(normalImpulse, lambda) == RMax(RAdd(normalImpulse, lambda), Zero)

\* The accumulated impulse of point j becomes newImpulse and the difference
\* is applied along the tangent.
ApplyTangent(vc, loc, j, newImpulse) ==
    [vc |-> [vc EXCEPT !.points[j].tangentImpulse = newImpulse],
     loc |-> ApplyImpulse(vc, loc, vc.points[j].rA, vc.points[j].rB,
                 VScale(RSub(newImpulse, vc.points[j].tangentImpulse), vc.tangent))]

\* Solve the tangent constraint of point j.
SolveTangentPoint(vc, loc, j) ==
    LET vcp == vc.points[j]
        dv == RelativeVelocity(loc.vA, loc.wA, loc.vB, loc.wB, vcp.rA, vcp.rB)
        vt == RSub(Dot(dv, vc.tangent), vc.tangentSpeed)
        lambda == RMul(vcp.tangentMass, RNeg(vt))
        maxFriction == RMul(vc.friction, vcp.normalImpulse)
    IN  ApplyTangent(vc, loc, j, ClampFriction(vcp.tangentImpulse, lambda, maxFriction))

\* The accumulated impulse of point j becomes newImpulse and the difference
\* is applied along the normal.
ApplyNormal(vc, loc, j, newImpulse) ==
    [vc |-> [vc EXCEPT !.points[j].normalImpulse = newImpulse],
     loc |-> ApplyImpulse(vc, loc, vc.points[j].rA, vc.points[j].rB,
                 VScale(RSub(newImpulse, vc.points[j].normalImpulse), vc.normal))]

\* Solve the normal constraint of point j on its own.
SolveNormalPoint(vc, loc, j) ==
    LET vcp == vc.points[j]
        dv == RelativeVelocity(loc.vA, loc.wA, loc.vB, loc.wB, vcp.rA, vcp.rB)
        vn == Dot(dv, vc.normal)
        lambda == RMul(RNeg(vcp.normalMass), RSub(vn, vcp.velocityBias))
    IN  ApplyNormal(vc, loc, j, ClampNormal(vcp.normalImpulse, lambda))

\* The four cases of the block solver, in the order the code tries them:
\* the total impulse x of case k and the normal velocities vn1, vn2 it
\* computes, for b = b'.
BlockX(vc, b, k) ==
    CASE k = 1 -> VNeg(MatMulVec2(vc.normalMass, b))
      [] k = 2 -> <<RMul(RNeg(vc.points[1].normalMass), b[1]), Zero>>
      [] k = 3 -> <<Zero, RMul(RNeg(vc.points[2].normalMass), b[2])>>
      [] k = 4 -> VZero

BlockVn(vc, b, k, x) ==
    CASE k = 1 -> VZero
      [] k = 2 -> <<Zero, RAdd(RMul(vc.K.ex[2], x[1]), b[2])>>
      [] k = 3 -> <<RAdd(RMul(vc.K.ey[1], x[2]), b[1]), Zero>>
      [] k = 4 -> b

\* The tests without the normal velocities of the inactive points.
ImpulseTest(k, x, vn) ==
    CASE k = 1 -> RGe(x[1], Zero) /\ RGe(x[2], Zero)
      [] k = 2 -> RGe(x[1], Zero)
      [] k = 3 -> RGe(x[2], Zero)
      [] k = 4 -> TRUE

\* The test of case k.
BlockTest(k, x, vn) ==
    CASE k = 1 -> RGe(x[1], Zero) /\ RGe(x[2], Zero)
      [] k = 2 -> RGe(x[1], Zero) /\ RGe(vn[2], Zero)
      [] k = 3 -> RGe(x[2], Zero) /\ RGe(vn[1], Zero)
      [] k = 4 -> RGe(vn[1], Zero) /\ RGe(vn[2], Zero)

BlockCaseOf(k, x, vn) ==
    [case |-> k, x |-> x, vn |-> vn, ok |-> BlockTest(k, x, vn),
     num |-> VIsNum(x) /\ VIsNum(vn)]
BlockCaseX(vc, b, k, x) == BlockCaseOf(k, x, BlockVn(vc, b, k, x))
BlockCase(vc, b, k) == BlockCaseX(vc, b, k, BlockX(vc, b, k))

\* The first case from k on whose test passes; case 5, which changes
\* nothing, when none does (the code gives up).  num is FALSE when a number
\* that a test read is not representable.
RECURSIVE FirstCaseFrom(_, _, _, _)
FirstCaseFrom(vc, a, b, c) ==
    IF ~c.num \/ c.ok THEN c
    ELSE IF c.case = 4 THEN [case |-> 5, x |-> a, vn |-> b, ok |-> FALSE, num |-> TRUE]
    ELSE FirstCaseFrom(vc, a, b, BlockCase(vc, b, c.case + 1))

FirstCase(vc, a, b) == FirstCaseFrom(vc, a, b, BlockCase(vc, b, 1))

\* b' = b - K * a, for b = vn - velocityBias at the two points
BlockB(vc, loc, a) ==
    LET cp1 == vc.points[1]
        cp2 == vc.points[2]
        dv1 == RelativeVelocity(loc.vA, loc.wA, loc.vB, loc.wB, cp1.rA, cp1.rB)
        dv2 == RelativeVelocity(loc.vA, loc.wA, loc.vB, loc.wB, cp2.rA, cp2.rB)
        vn1 == Dot(dv1, vc.normal)
        vn2 == Dot(dv2, vc.normal)
    IN  VSub(<<RSub(vn1, cp1.velocityBias), RSub(vn2, cp2.velocityBias)>>,
             MatMulVec2(vc.K, a))

\* The case c applied, case 5 applying the x = 0 that case 4 computed.
BlockApplyLastX(vc, loc, a, b, c) ==
    [vc |-> [vc EXCEPT !.points[1].normalImpulse = IF c.case = 5 THEN Zero ELSE c.x[1],
                       !.points[2].normalImpulse = IF c.case = 5 THEN Zero ELSE c.x[2]],
     loc |-> ApplyBlockImpulse(vc, loc, vc.points[1], vc.points[2],
                 VScale(RSub(IF c.case = 5 THEN Zero ELSE c.x[1], a[1]), vc.normal),
                 VScale(RSub(IF c.case = 5 THEN Zero ELSE c.x[2], a[2]), vc.normal)),
     case |-> c.case, a |-> a, b |-> b, x |-> c.x, vn |-> c.vn,
     num |-> c.num /\ VIsNum(b)]

\* The case c applied: d = x - a along the normal at the two points, and x
\* accumulated.  Case 5 applies nothing.
BlockApply(vc, loc, a, b, c) ==
    [vc |-> IF c.case = 5 THEN vc
            ELSE [vc EXCEPT !.points[1].normalImpulse = c.x[1],
                            !.points[2].normalImpulse = c.x[2]],
     loc |-> IF c.case = 5 THEN loc
             ELSE ApplyBlockImpulse(vc, loc, vc.points[1], vc.points[2],
                      VScale(RSub(c.x[1], a[1]), vc.normal),
                      VScale(RSub(c.x[2], a[2]), vc.normal)),
     case |-> c.case, a |-> a, b |-> b, x |-> c.x, vn |-> c.vn,
     num |-> c.num /\ VIsNum(b)]

BlockSolveB(vc, loc, a, b) == BlockApply(vc, loc, a, b, FirstCase(vc, a, b))
BlockSolveA(vc, loc, a) == BlockSolveB(vc, loc, a, BlockB(vc, loc, a))

\* The block solver of a contact with two points.
BlockSolve(vc, loc) ==
    BlockSolveA(vc, loc, <<vc.points[1].normalImpulse, vc.points[2].normalImpulse>>)

\* What the per-point path reports: case 0.
PerPoint(r) ==
    [vc |-> r.vc, loc |-> r.loc, case |-> 0, a |-> VZero, b |-> VZero, x |-> VZero,
     vn |-> VZero, num |-> TRUE]

\* The normal constraints of a contact, t its state after the tangent
\* constraints: per point, or by the block solver.
SolveNormal(t, blockSolve) ==
    IF t.vc.pointCount = 1 \/ blockSolve = FALSE
    THEN PerPoint(ForPoints(SolveNormalPoint, t.vc, t.loc, 1, t.vc.pointCount))
    ELSE BlockSolve(t.vc, t.loc)

\* r with the velocities the two bodies had between the tangent and the
\* normal constraints.
AfterTangent(t, r) ==
    [vc |-> r.vc, loc |-> r.loc, case |-> r.case, a |-> r.a, b |-> r.b, x |-> r.x,
     vn |-> r.vn, num |-> r.num, tangentLoc |-> t.loc]

SolveContact(t, blockSolve) == AfterTangent(t, SolveNormal(t, blockSolve))

\* A contact solved point by point with the normal constraint of each point
\* straight after its tangent constraint.
SolveBothPoint(vc, loc, j) ==
    LET t == SolveTangentPoint(vc, loc, j) IN SolveNormalPoint(t.vc, t.loc, j)

SolveVelocityPointwise(vc, loc, blockSolve) ==
    IF vc.pointCount = 1 \/ blockSolve = FALSE
    THEN LET r == ForPoints(SolveBothPoint, vc, loc, 1, vc.pointCount)
         IN  AfterTangent(r, PerPoint(r))
    ELSE SolveContact(ForPoints(SolveTangentPoint, vc, loc, 1, vc.pointCount), blockSolve)

\* One contact of a pass: the tangent constraints of all its points, then
\* its normal constraints.
SolveVelocityContact(vc, loc, blockSolve) ==
    SolveContact(ForPoints(SolveTangentPoint, vc, loc, 1, vc.pointCount), blockSolve)

\* ------------------------------------------------ b2ContactSolver.StoreImpulses

\* The manifold of a contact after the loop over the points of its velocity
\* constraint.
StoreContactImpulses(manifold, vc) ==
    [manifold EXCEPT !.points =
        [j \in 1..b2_maxManifoldPoints |->
            IF j <= vc.pointCount
            THEN [manifold.points[j] EXCEPT !.normalImpulse = vc.points[j].normalImpulse,
                                            !.tangentImpulse = vc.points[j].tangentImpulse]
            ELSE manifold.points[j]]]

\* ------------------------------------------ b2PositionSolverManifold.Initialize

\* The normal, point and separation of point j of a position constraint at
\* the transforms xfA and xfB.
PositionSolverManifold(pc0, xfA, xfB, j) ==
    CASE pc0.type = e_circles ->
            LET pointA == TransformMulVec2(xfA, pc0.localPoint)
                pointB == TransformMulVec2(xfB, pc0.localPoints[1])
                normal == VNormalize(VSub(pointB, pointA))
            IN  [normal |-> normal,
                 point |-> VMid(pointA, pointB),
                 separation |-> RSub(RSub(Dot(VSub(pointB, pointA), normal), pc0.radiusA),
                                     pc0.radiusB)]
      [] pc0.type = e_faceA ->
            LET normal == RotMulVec2(xfA.q, pc0.localNormal)
                planePoint == TransformMulVec2(xfA, pc0.localPoint)
                clipPoint == TransformMulVec2(xfB, pc0.localPoints[j])
            IN  [normal |-> normal,
                 point |-> clipPoint,
                 separation |-> RSub(RSub(Dot(VSub(clipPoint, planePoint), normal),
                                          pc0.radiusA), pc0.radiusB)]
      [] pc0.type = e_faceB ->
            LET normal == RotMulVec2(xfB.q, pc0.localNormal)
                planePoint == TransformMulVec2(xfB, pc0.localPoint)
                clipPoint == TransformMulVec2(xfA, pc0.localPoints[j])
            IN  [normal |-> VNeg(normal),
                 point |-> clipPoint,
                 separation |-> RSub(RSub(Dot(VSub(clipPoint, planePoint), normal),
                                          pc0.radiusA), pc0.radiusB)]

\* --------- b2ContactSolver.SolvePositionConstraints, SolveTOIPositionConstraints

\* The correction clamped to b2_maxLinearCorrection either way.
PositionCorrectionEitherWay(baumgarte, separation) ==
    b2Clamp(RMul(baumgarte, RAdd(separation, b2_linearSlop)),
            RNeg(b2_maxLinearCorrection), b2_maxLinearCorrection)

\* b2Clamp(baumgarte * (separation + b2_linearSlop), -b2_maxLinearCorrection, 0)
PositionCorrection(baumgarte, separation) ==
    b2Clamp(RMul(baumgarte, RAdd(separation, b2_linearSlop)),
            RNeg(b2_maxLinearCorrection), Zero)

\* K > 0 ? -C / K : 0
PositionImpulse(C, K) ==
    IF ~IsNum(K) \/ ~IsNum(C) THEN NaR
    ELSE IF RGt(K, Zero) THEN RDiv(RNeg(C), K) ELSE Zero

\* The inverse masses and inertias a pass uses for a contact.
FullMass(pc0) ==
    [mA |-> pc0.invMassA, iA |-> pc0.invIA, mB |-> pc0.invMassB, iB |-> pc0.invIB]

\* Those of the TOI pass without the mask.
UnmaskedMass(pc0, toiIndexA, toiIndexB) ==
    [mA |-> pc0.invMassA, iA |-> pc0.invIA, mB |-> pc0.invMassB, iB |-> pc0.invIB]

\* Those of the TOI pass: 0 for a body that is neither toiIndexA nor toiIndexB.
TOIMass(pc0, toiIndexA, toiIndexB) ==
    LET inA == pc0.indexA = toiIndexA \/ pc0.indexA = toiIndexB
        inB == pc0.indexB = toiIndexA \/ pc0.indexB = toiIndexB
    IN  [mA |-> IF inA THEN pc0.invMassA ELSE Zero,
         iA |-> IF inA THEN pc0.invIA ELSE Zero,
         mB |-> IF inB THEN pc0.invMassB ELSE Zero,
         iB |-> IF inB THEN pc0.invIB ELSE Zero]

\* cA, aA, cB, aB of the loops over the contacts.
PosLocal(posA, posB) == [cA |-> posA.c, aA |-> posA.a, cB |-> posB.c, aB |-> posB.a]

\* K = mA + mB + iA * rnA * rnA + iB * rnB * rnB
PositionK(m, rnA, rnB) ==
    RAdd(RAdd(m.mA, m.mB), RAdd(RMul(m.iA, RMul(rnA, rnA)), RMul(m.iB, RMul(rnB, rnB))))

\* The positions after the impulse P at arms rA and rB.
ApplyPositionImpulse(m, loc, rA, rB, P) ==
    [cA |-> VSubScaled(loc.cA, m.mA, P),
     aA |-> AngleSub(loc.aA, RMul(m.iA, Cross(rA, P))),
     cB |-> VAddScaled(loc.cB, m.mB, P),
     aB |-> AngleAdd(loc.aB, RMul(m.iB, Cross(rB, P)))]

\* The correction C at arms rA and rB along normal.
CorrectAt(m, loc, normal, separation, rA, rB, C) ==
    [loc |-> ApplyPositionImpulse(m, loc, rA, rB,
                 VScale(PositionImpulse(C, PositionK(m, Cross(rA, normal),
                                                     Cross(rB, normal))), normal)),
     was |-> loc,
     impulse |-> PositionImpulse(C, PositionK(m, Cross(rA, normal), Cross(rB, normal))),
     separation |-> separation,
     C |-> C]

\* The body of the loop over the points, psm being the solver manifold of
\* the point: the positions after it, the separation measured and the
\* correction C.
CorrectPoint(m, baumgarte, loc, psm) ==
    CorrectAt(m, loc, psm.normal, psm.separation,
              VSub(psm.point, loc.cA), VSub(psm.point, loc.cB),
              PositionCorrection(baumgarte, psm.separation))

SolvePositionPoint(pc0, m, baumgarte, loc, j) ==
    CorrectPoint(m, baumgarte, loc,
                 PositionSolverManifold(pc0,
                     BodyTransform(loc.cA, loc.aA, pc0.localCenterA),
                     BodyTransform(loc.cB, loc.aB, pc0.localCenterB), j))

\* run with what point r measured, minSeparation being the last separation.
LastMeasured(run, r) ==
    [loc |-> r.loc,
     minSeparation |-> r.separation,
     log |-> Append(run.log, [separation |-> r.separation, C |-> r.C,
                              impulse |-> r.impulse, moved |-> r.loc # r.was])]

\* run with what point r measured: minSeparation = b2Min(minSeparation,
\* separation).
Measured(run, r) ==
    [loc |-> r.loc,
     minSeparation |-> RMin(run.minSeparation, r.separation),
     log |-> Append(run.log, [separation |-> r.separation, C |-> r.C,
                              impulse |-> r.impulse, moved |-> r.loc # r.was])]

\* The loop over the points of one contact.  run holds the positions of the
\* two bodies, minSeparation and the list of what each point measured.
RECURSIVE SolvePositionContact(_, _, _, _, _)
SolvePositionContact(pc0, m, baumgarte, run, j) ==
    IF j > pc0.pointCount THEN run
    ELSE SolvePositionContact(pc0, m, baumgarte,
             Measured(run, SolvePositionPoint(pc0, m, baumgarte, run.loc, j)), j + 1)

\* The positions with those of the bodies of a contact written back.
WriteBack(positions, pc0, loc) ==
    [positions EXCEPT ![pc0.indexA] = [c |-> loc.cA, a |-> loc.aA],
                      ![pc0.indexB] = [c |-> loc.cB, a |-> loc.aB]]

\* What a pass holds when it reaches contact pc0, and after it.
EnterContact(st, pc0) ==
    [loc |-> PosLocal(st.positions[pc0.indexA], st.positions[pc0.indexB]),
     minSeparation |-> st.minSeparation, log |-> st.log]

LeaveContact(st, pc0, run) ==
    [positions |-> WriteBack(st.positions, pc0, run.loc),
     minSeparation |-> run.minSeparation, log |-> run.log]

\* The loop over the contacts of SolvePositionConstraints, from contact i.
RECURSIVE PositionPass(_, _, _, _)
PositionPass(pcs, count, st, i) ==
    IF i > count THEN st
    ELSE PositionPass(pcs, count,
             LeaveContact(st, pcs[i],
                 SolvePositionContact(pcs[i], FullMass(pcs[i]), b2_baumgarte,
                                      EnterContact(st, pcs[i]), 1)),
             i + 1)

\* The loop over the contacts of SolveTOIPositionConstraints, from contact i.
RECURSIVE TOIPositionPass(_, _, _, _, _, _)
TOIPositionPass(pcs, count, toiIndexA, toiIndexB, st, i) ==
    IF i > count THEN st
    ELSE TOIPositionPass(pcs, count, toiIndexA, toiIndexB,
             LeaveContact(st, pcs[i],
                 SolvePositionContact(pcs[i], TOIMass(pcs[i], toiIndexA, toiIndexB),
                                      b2_toiBaumgarte, EnterContact(st, pcs[i]), 1)),
             i + 1)

\* minSeparation >= -3 * b2_linearSlop
PositionsSatisfied(minSeparation) ==
    RGe(minSeparation, RMul(R(-3), b2_linearSlop))

\* The test of the TOI pass with the tolerance of the other pass.
SatisfiedWithinThreeSlops(minSeparation) ==
    RGe(minSeparation, RMul(R(-3), b2_linearSlop))

\* minSeparation >= -1.5 * b2_linearSlop
TOIPositionsSatisfied(minSeparation) ==
    RGe(minSeparation, RMul(<<-3, 2>>, b2_linearSlop))

\* ------------------------------------------------------------------ state

VARIABLES
    bodies,                 \* per island index: invMass, invI, localCenter (b2Body)
    contacts,               \* per contact: its two bodies, mixed material, radii
    manifolds,              \* per contact: its b2Manifold
    m_positions,            \* per island index: c, a
    m_velocities,           \* per island index: v, w
    m_step,                 \* dtRatio, warmStarting
    m_count,
    m_velocityConstraints,
    m_positionConstraints,
    g_blockSolve,
    pc,                     \* where the step driver is
    steps,                  \* steps begun
    passes,                 \* passes run in this step
    lastOp,                 \* the operation that ran last, with its arguments
    pre,                    \* velocities, positions, constraints and manifolds before it
    trace,                  \* per contact, what SolveVelocityConstraints did
    ret,                    \* what the last position pass returned and measured
    joint,                  \* the joint of the island: its type and its fields
    solvers,                \* two b2ContactSolver objects, each with its island
    scratch                 \* the static vectors the solvers share

vars == <<bodies, contacts, manifolds, m_positions, m_velocities, m_step, m_count,
          m_velocityConstraints, m_positionConstraints, g_blockSolve, pc, steps,
          passes, lastOp, pre, trace, ret, joint, solvers, scratch>>

\* What the contact solver reads and leaves alone, and what the operations on
\* the one solver of an island have no part in.
world == <<bodies, contacts, joint, solvers, scratch>>
solverArrays == <<m_velocityConstraints, m_positionConstraints>>

\* ----------------------------------------------------------- what is stored

Body(invMass, invI, localCenter) ==
    [invMass |-> invMass, invI |-> invI, localCenter |-> localCenter]

\* The fields of a b2Contact and of its fixtures that Initialize reads.
Contact(bodyA, bodyB, friction, restitution, threshold, tangentSpeed, radiusA, radiusB) ==
    [bodyA |-> bodyA, bodyB |-> bodyB, friction |-> friction,
     restitution |-> restitution, restitutionThreshold |-> threshold,
     tangentSpeed |-> tangentSpeed, radiusA |-> radiusA, radiusB |-> radiusB]

Position(c, a) == [c |-> c, a |-> a]
Velocity(v, w) == [v |-> v, w |-> w]

PointIsNum(p) ==
    /\ VIsNum(p.rA) /\ VIsNum(p.rB)
    /\ IsNum(p.normalImpulse) /\ IsNum(p.tangentImpulse)
    /\ IsNum(p.normalMass) /\ IsNum(p.tangentMass) /\ IsNum(p.velocityBias)

VCIsNum(vc) ==
    /\ \A j \in 1..b2_maxManifoldPoints : PointIsNum(vc.points[j])
    /\ VIsNum(vc.normal) /\ VIsNum(vc.tangent)
    /\ MatIsNum(vc.normalMass) /\ MatIsNum(vc.K)

VelocitiesAreNum(vel) == \A i \in DOMAIN vel : VIsNum(vel[i].v) /\ IsNum(vel[i].w)
PositionsAreNum(pos) == \A i \in DOMAIN pos : VIsNum(pos[i].c) /\ AngleIsNum(pos[i].a)

Snapshot ==
    [velocities |-> m_velocities, positions |-> m_positions,
     vcs |-> m_velocityConstraints, manifolds |-> manifolds, joint |-> joint]

NoRet == [value |-> TRUE, minSeparation |-> Zero, log |-> <<>>]

\* An island without a joint.
NoJoint == [type |-> "none"]

\* ----------------------------------------------------------------- actions

\* def.step of Initialize: warmStarting and dtRatio
StepParams == {[warmStarting |-> TRUE, dtRatio |-> One],
               [warmStarting |-> TRUE, dtRatio |-> <<1, 2>>],
               [warmStarting |-> FALSE, dtRatio |-> One]}

\* The velocity constraints Initialize leaves: the array grown, then the
\* first count elements written.
InitializedVCs(vcs, count, step) ==
    [i \in DOMAIN vcs |->
        IF i <= count
        THEN InitializeVC(vcs[i], i, contacts[i],
                          bodies[contacts[i].bodyA], bodies[contacts[i].bodyB],
                          manifolds[i], step)
        ELSE vcs[i]]

InitializedPCs(pcs, count) ==
    [i \in DOMAIN pcs |->
        IF i <= count
        THEN InitializePC(pcs[i], contacts[i],
                          bodies[contacts[i].bodyA], bodies[contacts[i].bodyB],
                          manifolds[i])
        ELSE pcs[i]]

\* Initialize(def): def.contacts are the island's contacts, def.positions and
\* def.velocities its arrays.
Initialize(step) ==
    /\ pc = "idle"
    /\ steps <= MaxSteps
    /\ m_step' = step
    /\ m_count' = Len(contacts)
    /\ m_velocityConstraints' =
          InitializedVCs(Grown(m_velocityConstraints, Len(contacts),
                               NewContactVelocityConstraint), Len(contacts), step)
    /\ m_positionConstraints' =
          InitializedPCs(Grown(m_positionConstraints, Len(contacts),
                               NewContactPositionConstraint), Len(contacts))
    /\ \A i \in 1..Len(contacts) : VCIsNum(m_velocityConstraints'[i])
    /\ pc' = "initialized"
    /\ steps' = steps + 1
    /\ passes' = 0
    /\ lastOp' = [op |-> "Initialize", arg |-> step, blockSolve |-> g_blockSolve]
    /\ pre' = Snapshot
    /\ trace' = <<>>
    /\ ret' = NoRet
    /\ UNCHANGED <<world, manifolds, m_positions, m_velocities, g_blockSolve>>

\* InitializeVelocityConstraints(): wms[i] is the world manifold of contact i.
InitializeVelocityConstraints(wms) ==
    /\ pc = "initialized"
    /\ steps <= MaxSteps
    /\ m_velocityConstraints' =
          [i \in DOMAIN m_velocityConstraints |->
              IF i <= m_count
              THEN LET vc == m_velocityConstraints[i]
                   IN  InitVelocityContact(vc, wms[i],
                           m_positions[vc.indexA], m_positions[vc.indexB],
                           m_velocities[vc.indexA], m_velocities[vc.indexB],
                           g_blockSolve)
              ELSE m_velocityConstraints[i]]
    /\ \A i \in 1..m_count : VCIsNum(m_velocityConstraints'[i])
    /\ pc' = "ready"
    /\ lastOp' = [op |-> "InitializeVelocityConstraints", arg |-> wms, blockSolve |-> g_blockSolve]
    /\ pre' = Snapshot
    /\ trace' = <<>>
    /\ ret' = NoRet
    /\ UNCHANGED <<world, manifolds, m_positions, m_velocities, m_step, m_count,
                   m_positionConstraints, g_blockSolve, steps, passes>>

\* The velocities of the two bodies of a contact, read at the top of the
\* loop body and written back at its end.
LocalOf(vel, vc) == Local(vel[vc.indexA], vel[vc.indexB])

WriteVelocities(vel, vc, loc) ==
    [vel EXCEPT ![vc.indexA] = Velocity(loc.vA, loc.wA),
                ![vc.indexB] = Velocity(loc.vB, loc.wB)]

\* The constraints and the velocities of WarmStart after contact i, r being
\* what the loop body did.
AfterWarmStartContact(vcs, vel, i, r) ==
    [vcs |-> [vcs EXCEPT ![i] = r.vc], vel |-> WriteVelocities(vel, vcs[i], r.loc)]

\* The loop over the contacts of WarmStart, from contact i.
RECURSIVE WarmStartFrom(_, _, _)
WarmStartFrom(count, st, i) ==
    IF i > count THEN st
    ELSE WarmStartFrom(count,
             AfterWarmStartContact(st.vcs, st.vel, i,
                 WarmStartContact(st.vcs[i], LocalOf(st.vel, st.vcs[i]))),
             i + 1)

WarmStart ==
    /\ pc = "ready"
    /\ \E r \in {WarmStartFrom(m_count,
                     [vcs |-> m_velocityConstraints, vel |-> m_velocities], 1)} :
          /\ m_velocityConstraints' = r.vcs
          /\ m_velocities' = r.vel
    /\ VelocitiesAreNum(m_velocities')
    /\ pc' = "solving"
    /\ lastOp' = [op |-> "WarmStart", arg |-> <<>>, blockSolve |-> g_blockSolve]
    /\ pre' = Snapshot
    /\ trace' = <<>>
    /\ ret' = NoRet
    /\ UNCHANGED <<world, manifolds, m_positions, m_step, m_count,
                   m_positionConstraints, g_blockSolve, steps, passes>>

\* The constraints, the velocities and the trace of a pass after contact i,
\* r being what the loop body did.
AfterContact(st, i, r) ==
    [vcs |-> [st.vcs EXCEPT ![i] = r.vc],
     vel |-> WriteVelocities(st.vel, st.vcs[i], r.loc),
     trace |-> Append(st.trace, [case |-> r.case, a |-> r.a, b |-> r.b, x |-> r.x,
                                 vn |-> r.vn, num |-> r.num,
                                 tangentLoc |-> r.tangentLoc, loc |-> r.loc])]

\* The loop over the contacts of SolveVelocityConstraints, from contact i.
RECURSIVE SolveVelocityFrom(_, _, _, _)
SolveVelocityFrom(count, blockSolve, st, i) ==
    IF i > count THEN st
    ELSE SolveVelocityFrom(count, blockSolve,
             AfterContact(st, i,
                 SolveVelocityContact(st.vcs[i], LocalOf(st.vel, st.vcs[i]), blockSolve)),
             i + 1)

SolveVelocityConstraints ==
    /\ pc = "solving"
    /\ passes < MaxPasses
    /\ \E r \in {SolveVelocityFrom(m_count, g_blockSolve,
                    [vcs |-> m_velocityConstraints, vel |-> m_velocities, trace |-> <<>>], 1)} :
           /\ m_velocityConstraints' = r.vcs
           /\ m_velocities' = r.vel
           /\ trace' = r.trace
           /\ \A i \in 1..m_count : r.trace[i].num /\ VCIsNum(r.vcs[i])
           /\ VelocitiesAreNum(r.vel)
    /\ passes' = passes + 1
    /\ lastOp' = [op |-> "SolveVelocityConstraints", arg |-> <<>>, blockSolve |-> g_blockSolve]
    /\ pre' = Snapshot
    /\ ret' = NoRet
    /\ UNCHANGED <<world, manifolds, m_positions, m_step, m_count,
                   m_positionConstraints, g_blockSolve, pc, steps>>

StoreImpulses ==
    /\ pc = "solving"
    /\ manifolds' =
          [i \in DOMAIN manifolds |->
              IF i <= m_count
              THEN StoreContactImpulses(manifolds[m_velocityConstraints[i].contactIndex],
                                        m_velocityConstraints[i])
              ELSE manifolds[i]]
    /\ pc' = "idle"
    /\ lastOp' = [op |-> "StoreImpulses", arg |-> <<>>, blockSolve |-> g_blockSolve]
    /\ pre' = Snapshot
    /\ trace' = <<>>
    /\ ret' = NoRet
    /\ UNCHANGED <<world, m_positions, m_velocities, m_step, m_count, solverArrays,
                   g_blockSolve, steps, passes>>

\* b2SetBlockSolve(value)
SetBlockSolve(value) ==
    /\ g_blockSolve' = value
    /\ UNCHANGED <<world, manifolds, m_positions, m_velocities, m_step, m_count,
                   solverArrays, pc, steps, passes, lastOp, pre, trace, ret>>

\* SolvePositionConstraints(): boolean
SolvePositionConstraints ==
    /\ pc = "initialized"
    /\ passes < MaxPosPasses
    /\ \E r \in {PositionPass(m_positionConstraints, m_count,
                    [positions |-> m_positions, minSeparation |-> Zero, log |-> <<>>], 1)} :
           /\ m_positions' = r.positions
           /\ PositionsAreNum(r.positions)
           /\ IsNum(r.minSeparation)
           /\ \A k \in DOMAIN r.log : IsNum(r.log[k].separation) /\ IsNum(r.log[k].C)
           /\ ret' = [value |-> PositionsSatisfied(r.minSeparation),
                      minSeparation |-> r.minSeparation, log |-> r.log]
    /\ passes' = passes + 1
    /\ lastOp' = [op |-> "SolvePositionConstraints", arg |-> <<>>, blockSolve |-> g_blockSolve]
    /\ pre' = Snapshot
    /\ trace' = <<>>
    /\ UNCHANGED <<world, manifolds, m_velocities, m_step, m_count, solverArrays,
                   g_blockSolve, pc, steps>>

\* SolveTOIPositionConstraints(toiIndexA, toiIndexB): boolean
SolveTOIPositionConstraints(toiIndexA, toiIndexB) ==
    /\ pc = "initialized"
    /\ passes < MaxPosPasses
    /\ \E r \in {TOIPositionPass(m_positionConstraints, m_count, toiIndexA, toiIndexB,
                    [positions |-> m_positions, minSeparation |-> Zero, log |-> <<>>], 1)} :
           /\ m_positions' = r.positions
           /\ PositionsAreNum(r.positions)
           /\ IsNum(r.minSeparation)
           /\ \A k \in DOMAIN r.log : IsNum(r.log[k].separation) /\ IsNum(r.log[k].C)
           /\ ret' = [value |-> TOIPositionsSatisfied(r.minSeparation),
                      minSeparation |-> r.minSeparation, log |-> r.log]
    /\ passes' = passes + 1
    /\ lastOp' = [op |-> "SolveTOIPositionConstraints", arg |-> <<toiIndexA, toiIndexB>>, blockSolve |-> g_blockSolve]
    /\ pre' = Snapshot
    /\ trace' = <<>>
    /\ UNCHANGED <<world, manifolds, m_velocities, m_step, m_count, solverArrays,
                   g_blockSolve, pc, steps>>

\* --------------------------------------------- the islands the model explores

\* Island indices: the code's 0, 1, 2 are the model's 1, 2, 3.
BodyIndex == 1..3

NoAngle == Angle(0, Zero)
NoPoint == ManifoldPoint(VZero, Zero, Zero)

\* The most contacts an island of the model holds; the solver's arrays are
\* modelled up to this length.
MaxContacts == 2

\* b2_velocityThreshold, the default m_restitutionThreshold of a contact
VelocityThreshold == One

\* Velocity solving: a static ground (1), a box on it (2), a ball on the
\* box (3).  The manifolds start with impulses 0.
VelBodies == <<Body(Zero, Zero, VZero), Body(One, One, VZero), Body(<<1, 2>>, Zero, VZero)>>
VelPositions == <<Position(Vec(0, 0), NoAngle), Position(Vec(0, 1), NoAngle),
                  Position(Vec(0, 3), NoAngle)>>

Materials ==
    {[friction |-> <<1, 2>>, restitution |-> <<1, 2>>, tangentSpeed |-> Zero],
     [friction |-> One, restitution |-> Zero, tangentSpeed |-> One]}

GroundBox(m, n) ==
    [contact |-> Contact(1, 2, m.friction, m.restitution, VelocityThreshold,
                         m.tangentSpeed, b2_linearSlop, b2_linearSlop),
     manifold |-> Manifold(e_faceA, Vec(0, 1), Vec(0, 0),
                           <<ManifoldPoint(Vec(-1, -1), Zero, Zero),
                             ManifoldPoint(Vec(1, -1), Zero, Zero)>>, n)]

BoxBall(m) ==
    [contact |-> Contact(2, 3, m.friction, m.restitution, VelocityThreshold,
                         Zero, b2_linearSlop, One),
     manifold |-> Manifold(e_faceA, Vec(0, 1), Vec(0, 1),
                           <<ManifoldPoint(Vec(0, 0), Zero, Zero), NoPoint>>, 1)]

VelLayouts(m) ==
    {<<GroundBox(m, 2)>>, <<GroundBox(m, 2), BoxBall(m)>>}

BoxVelocities == {Velocity(Vec(0, -2), Zero), Velocity(Vec(1, -1), One),
                  Velocity(Vec(2, 1), R(-2))}
BallVelocities == {Velocity(Vec(-1, -3), Zero)}

\* The world manifolds b2WorldManifold.Initialize can give a contact of
\* the ground and the box, and one of the box and the ball: a unit normal
\* and a point for each manifold point.
WorldManifold(normal, points) == [normal |-> normal, points |-> points]
GroundBoxWorldManifolds ==
    {WorldManifold(Vec(0, 1), <<Vec(-1, 0), Vec(2, 0)>>),
     WorldManifold(Vec(0, 1), <<Vec(1, 0), Vec(2, 0)>>),
     WorldManifold(Vec(0, 1), <<Vec(1, 0), Vec(1, 0)>>),
     WorldManifold(<<<<3, 5>>, <<4, 5>>>>, <<Vec(-1, 0), Vec(1, 0)>>)}
BoxBallWorldManifolds ==
    {WorldManifold(<<<<-4, 5>>, <<3, 5>>>>, <<Vec(1, 2), Vec(1, 2)>>)}
WorldManifoldsOf(contact) ==
    IF contact.bodyA = 1 THEN GroundBoxWorldManifolds ELSE BoxBallWorldManifolds
WorldManifolds ==
    {wms \in [1..Len(contacts) -> GroundBoxWorldManifolds \cup BoxBallWorldManifolds] :
        \A i \in 1..Len(contacts) : wms[i] \in WorldManifoldsOf(contacts[i])}

InitSolver ==
    /\ m_step = [warmStarting |-> FALSE, dtRatio |-> Zero]
    /\ m_count = 0
    /\ m_velocityConstraints = [i \in 1..MaxContacts |-> NewContactVelocityConstraint]
    /\ m_positionConstraints = [i \in 1..MaxContacts |-> NewContactPositionConstraint]
    /\ g_blockSolve = TRUE
    /\ pc = "idle"
    /\ steps = 0
    /\ passes = 0
    /\ lastOp = [op |-> "none", arg |-> <<>>, blockSolve |-> TRUE]
    /\ trace = <<>>
    /\ ret = NoRet
    /\ solvers = <<>>
    /\ scratch = NewScratch

Init ==
    /\ bodies = VelBodies
    /\ \E m \in Materials : \E layout \in VelLayouts(m) :
          /\ contacts = [i \in 1..Len(layout) |-> layout[i].contact]
          /\ manifolds = [i \in 1..Len(layout) |-> layout[i].manifold]
    /\ m_positions = VelPositions
    /\ \E v2 \in BoxVelocities, v3 \in BallVelocities :
          m_velocities = <<Velocity(VZero, Zero), v2, v3>>
    /\ InitSolver
    /\ joint = NoJoint
    /\ pre = Snapshot

Next ==
    \/ \E step \in StepParams : Initialize(step)
    \/ \E wms \in WorldManifolds : InitializeVelocityConstraints(wms)
    \/ WarmStart
    \/ SolveVelocityConstraints
    \/ StoreImpulses
    \/ \E value \in BOOLEAN : SetBlockSolve(value)

Spec == Init /\ [][Next]_vars

\* Position solving.  Circles: three discs in a row, the first static.
\* Faces: a static ground (1), a box on it (2) and a ball on the box (3);
\* the ball's centre of mass is off its body origin and it is turned a
\* quarter turn.  The separations cover no overlap, the two tolerances, an
\* overlap inside the correction's range and one beyond it.
PolygonRadius == RMul(R(2), b2_linearSlop)
FirstSeparations == {Zero, <<-3, 400>>, <<-1, 100>>, <<-3, 200>>, <<-1, 10>>, <<-1, 2>>}
SecondSeparations == {Zero, <<-1, 100>>, <<-1, 2>>}
Directions == {Vec(1, 0), <<<<3, 5>>, <<4, 5>>>>}
Half == <<1, 2>>

DiscContact(a, b, centreA, centreB) ==
    [contact |-> Contact(a, b, Zero, Zero, VelocityThreshold, Zero, Half, Half),
     manifold |-> Manifold(e_circles, VZero, centreA,
                           <<ManifoldPoint(centreB, Zero, Zero), NoPoint>>, 1)]

DiscIslands ==
    {[bodies |-> <<Body(Zero, Zero, VZero), Body(One, One, VZero),
                   Body(Half, Zero, Vec(1, 0))>>,
      layout |-> <<DiscContact(1, 2, VZero, VZero), DiscContact(2, 3, VZero, Vec(1, 0))>>,
      positions |-> <<Position(VZero, NoAngle),
                      Position(VScale(RAdd(One, s1), u), NoAngle),
                      Position(VAdd(VScale(RAdd(One, s1), u), <<RAdd(One, s2), Zero>>),
                               Angle(1, Zero))>>] :
        s1 \in FirstSeparations, s2 \in SecondSeparations, u \in Directions}

\* The box on the ground: the ground's top face is the reference face, the
\* box's lower corners are the points (n = 1: the right corner alone).
GroundBoxFace(n) ==
    [contact |-> Contact(1, 2, Zero, Zero, VelocityThreshold, Zero,
                         PolygonRadius, PolygonRadius),
     manifold |-> Manifold(e_faceA, Vec(0, 1), VZero,
                           IF n = 1
                           THEN <<ManifoldPoint(Vec(1, -1), Zero, Zero), NoPoint>>
                           ELSE <<ManifoldPoint(Vec(-1, -1), Zero, Zero),
                                  ManifoldPoint(Vec(1, -1), Zero, Zero)>>, n)]

\* The ball on the box, the box's top face the reference face: as a
\* contact of the box (A) and the ball (B), and of the ball (A) and the box (B).
BoxBallFace ==
    [contact |-> Contact(2, 3, Zero, Zero, VelocityThreshold, Zero, PolygonRadius, Half),
     manifold |-> Manifold(e_faceA, Vec(0, 1), Vec(0, 1),
                           <<ManifoldPoint(Vec(1, 0), Zero, Zero), NoPoint>>, 1)]
BallBoxFace ==
    [contact |-> Contact(3, 2, Zero, Zero, VelocityThreshold, Zero, Half, PolygonRadius),
     manifold |-> Manifold(e_faceB, Vec(0, 1), Vec(0, 1),
                           <<ManifoldPoint(Vec(1, 0), Zero, Zero), NoPoint>>, 1)]

FaceIslands ==
    {[bodies |-> <<Body(Zero, Zero, VZero), Body(One, invI, VZero),
                   Body(Half, Zero, Vec(1, 0))>>,
      layout |-> <<top, GroundBoxFace(n)>>,
      positions |->
          LET boxY == RAdd(RAdd(One, RMul(R(2), PolygonRadius)), s1)
              ballY == RAdd(RAdd(RAdd(boxY, One), RAdd(Half, PolygonRadius)), s2)
          IN  <<Position(VZero, NoAngle), Position(<<Zero, boxY>>, NoAngle),
                Position(<<Zero, ballY>>, Angle(1, Zero))>>] :
        invI \in {Zero, One}, top \in {BoxBallFace, BallBoxFace}, n \in 1..2,
        s1 \in FirstSeparations, s2 \in SecondSeparations}

\* An island without contacts.
EmptyIslands ==
    {[bodies |-> <<Body(Zero, Zero, VZero), Body(One, One, VZero),
                   Body(Half, Zero, VZero)>>,
      layout |-> <<>>,
      positions |-> <<Position(VZero, NoAngle), Position(Vec(0, 2), NoAngle),
                      Position(Vec(0, 4), NoAngle)>>]}

PosIslands == DiscIslands \cup FaceIslands \cup EmptyIslands

InitPos ==
    /\ \E island \in PosIslands :
          /\ bodies = island.bodies
          /\ contacts = [i \in 1..Len(island.layout) |-> island.layout[i].contact]
          /\ manifolds = [i \in 1..Len(island.layout) |-> island.layout[i].manifold]
          /\ m_positions = island.positions
    /\ m_velocities = [i \in BodyIndex |-> Velocity(VZero, Zero)]
    /\ InitSolver
    /\ joint = NoJoint
    /\ pre = Snapshot

\* The step of a position-solving run: the positions do not depend on it.
PosStepParams == {[warmStarting |-> TRUE, dtRatio |-> One]}

NextPos ==
    \/ \E step \in PosStepParams : Initialize(step)
    \/ SolvePositionConstraints
    \/ \E toiIndexA \in BodyIndex : \E toiIndexB \in BodyIndex \ {toiIndexA} :
          SolveTOIPositionConstraints(toiIndexA, toiIndexB)

SpecPos == InitPos /\ [][NextPos]_vars

\* The block solver in floating point.  The code keeps the inverses
\* vc.normalMass = K.GetInverse() and vcp.normalMass = 1 / kNormal as
\* floating-point numbers, so that each differs from the exact inverse by a
\* rounding error; with the exact inverses one of the four cases always
\* passes.  The runs start after WarmStart in a step with two contacts, the
\* stored inverses off by a relative error of at most RoundingError (far
\* larger than a double's, to keep the numbers in range; the cases fail the
\* same way), the contact of the ground and the box holding the impulses a
\* it was warm started with.
RoundingError == <<1, 64>>
RoundingErrors == {RNeg(RoundingError), Zero, RoundingError}

\* x * (1 + e)
Rounded(x, e) == RMul(x, RAdd(One, e))

\* vc with its stored inverses rounded: the two columns of normalMass by
\* e.ex and e.ey, the points' normalMass by e.m1 and e.m2.
RoundedInverses(vc, e) ==
    [vc EXCEPT !.normalMass = Mat(VScale(RAdd(One, e.ex), vc.normalMass.ex),
                                  VScale(RAdd(One, e.ey), vc.normalMass.ey)),
               !.points[1].normalMass = Rounded(vc.points[1].normalMass, e.m1),
               !.points[2].normalMass = Rounded(vc.points[2].normalMass, e.m2)]

BlockMaterials ==
    {[friction |-> Zero, restitution |-> Zero, tangentSpeed |-> Zero],
     [friction |-> <<1, 2>>, restitution |-> Zero, tangentSpeed |-> Zero]}
BlockImpulses == {VZero, Vec(1, 1)}
BlockVelocities == {Velocity(Vec(1, -1), One), Velocity(Vec(0, 1), R(2)),
                    Velocity(Vec(0, -2), Zero)}
BlockWorldManifolds ==
    <<WorldManifold(Vec(0, 1), <<Vec(-1, 0), Vec(2, 0)>>),
      WorldManifold(Vec(0, 1), <<Vec(0, 2), Vec(0, 2)>>)>>
BlockStep == [warmStarting |-> TRUE, dtRatio |-> One]

\* The ground and the box with the impulses a stored, and the box and the ball.
BlockLayout(m, a) ==
    <<[contact |-> GroundBox(m, 2).contact,
       manifold |-> Manifold(e_faceA, Vec(0, 1), Vec(0, 0),
                             <<ManifoldPoint(Vec(-1, -1), a[1], Zero),
                               ManifoldPoint(Vec(1, -1), a[2], Zero)>>, 2)],
      BoxBall(m)>>

InitBlock ==
    /\ bodies = VelBodies
    /\ \E m \in BlockMaterials, a \in BlockImpulses :
          /\ contacts = [i \in 1..2 |-> BlockLayout(m, a)[i].contact]
          /\ manifolds = [i \in 1..2 |-> BlockLayout(m, a)[i].manifold]
    /\ m_positions = VelPositions
    /\ \E v2 \in BlockVelocities :
          m_velocities = <<Velocity(VZero, Zero), v2, Velocity(Vec(0, -1), Zero)>>
    /\ m_step = BlockStep
    /\ m_count = 2
    /\ \E e \in [{"ex", "ey", "m1", "m2"} -> RoundingErrors] :
          m_velocityConstraints =
              [i \in 1..MaxContacts |->
                  IF i <= 2
                  THEN RoundedInverses(
                           InitVelocityContact(
                               InitializeVC(NewContactVelocityConstraint, i, contacts[i],
                                            bodies[contacts[i].bodyA],
                                            bodies[contacts[i].bodyB], manifolds[i],
                                            BlockStep),
                               BlockWorldManifolds[i],
                               m_positions[contacts[i].bodyA],
                               m_positions[contacts[i].bodyB],
                               m_velocities[contacts[i].bodyA],
                               m_velocities[contacts[i].bodyB], TRUE),
                           IF i = 1 THEN e ELSE [n \in DOMAIN e |-> Zero])
                  ELSE NewContactVelocityConstraint]
    /\ m_positionConstraints =
          [i \in 1..MaxContacts |->
              IF i <= 2
              THEN InitializePC(NewContactPositionConstraint, contacts[i],
                                bodies[contacts[i].bodyA], bodies[contacts[i].bodyB],
                                manifolds[i])
              ELSE NewContactPositionConstraint]
    /\ \A i \in 1..2 : VCIsNum(m_velocityConstraints[i])
    /\ g_blockSolve = TRUE
    /\ pc = "solving"
    /\ steps = 1
    /\ passes = 0
    /\ lastOp = [op |-> "WarmStart", arg |-> <<>>, blockSolve |-> TRUE]
    /\ trace = <<>>
    /\ ret = NoRet
    /\ solvers = <<>>
    /\ scratch = NewScratch
    /\ joint = NoJoint
    /\ pre = Snapshot

NextBlock == SolveVelocityConstraints

SpecBlock == InitBlock /\ [][NextBlock]_vars

\* ------------------------------------------------------------------ joints

\* The joints keep their own copies of b2Joint's m_bodyA and m_bodyB as
\* island indices, and the fields of their class under the source's names.

\* The top of every InitVelocityConstraints: the island indices, the local
\* centres and the inverse masses and inertias of the two bodies.
CopyBodyData(j, bd) ==
    [j EXCEPT !.m_indexA = j.m_bodyA, !.m_indexB = j.m_bodyB,
              !.m_localCenterA = bd[j.m_bodyA].localCenter,
              !.m_localCenterB = bd[j.m_bodyB].localCenter,
              !.m_invMassA = bd[j.m_bodyA].invMass, !.m_invMassB = bd[j.m_bodyB].invMass,
              !.m_invIA = bd[j.m_bodyA].invI, !.m_invIB = bd[j.m_bodyB].invI]

\* b2Mul(q, localAnchor - localCenter), q.Set(a)
Arm(a, localAnchor, localCenter) == RotMulVec2(Rot(a), VSub(localAnchor, localCenter))

\* m_rA and m_rB at the angles aA and aB
WithArms(j, aA, aB) ==
    [j EXCEPT !.m_rA = Arm(aA, j.m_localAnchorA, j.m_localCenterA),
              !.m_rB = Arm(aB, j.m_localAnchorB, j.m_localCenterB)]

\* cB + m_rB - cA - m_rA
AnchorSeparation(j, cA, cB) == VSub(VSub(VAdd(cB, j.m_rB), cA), j.m_rA)

\* v.Length(): Math.sqrt(x * x + y * y), which is the absolute value of
\* the other component when one is 0.
Length(v) ==
    IF v[1] = Zero THEN RAbs(v[2])
    ELSE IF v[2] = Zero THEN RAbs(v[1])
    ELSE RSqrt(Dot(v, v))

\* m_invMassA + m_invIA * crA * crA + m_invMassB + m_invIB * crB * crB, crA
\* and crB the crosses of the arms with the axis u
AxisInvMass(j, crA, crB) ==
    RAdd(RAdd(j.m_invMassA, RMul(RMul(j.m_invIA, crA), crA)),
         RAdd(j.m_invMassB, RMul(RMul(j.m_invIB, crB), crB)))

\* invMass !== 0 ? 1 / invMass : 0
InverseIfNonZero(invMass) ==
    IF ~IsNum(invMass) THEN NaR
    ELSE IF invMass[1] # 0 THEN RInv(invMass) ELSE Zero

\* An inverse that is 1 where there is nothing to invert.
InverseOrOne(mass) ==
    IF ~IsNum(mass) THEN NaR
    ELSE IF RGt(mass, Zero) THEN RInv(mass) ELSE One

\* if (mass > 0) mass = 1 / mass
InverseIfPositive(mass) ==
    IF ~IsNum(mass) THEN NaR
    ELSE IF RGt(mass, Zero) THEN RInv(mass) ELSE mass

\* The accumulated impulse scaled, warm starting or not.
ScaledImpulse(step, impulse) == RMul(impulse, step.dtRatio)

\* The accumulated impulse a joint starts the step with: m_impulse *=
\* dtRatio when warm starting, else m_impulse = 0.
StartingImpulse(step, impulse) ==
    IF step.warmStarting THEN RMul(impulse, step.dtRatio) ELSE Zero

\* vA -= m_invMassA * P; wA -= m_invIA * Cross(m_rA, P);
\* vB += m_invMassB * P; wB += m_invIB * Cross(m_rB, P)
JointApply(j, loc, P) ==
    [vA |-> VSubScaled(loc.vA, j.m_invMassA, P),
     wA |-> RSub(loc.wA, RMul(j.m_invIA, Cross(j.m_rA, P))),
     vB |-> VAddScaled(loc.vB, j.m_invMassB, P),
     wB |-> RAdd(loc.wB, RMul(j.m_invIB, Cross(j.m_rB, P)))]

\* The inverse masses and inertias a position pass of a joint uses.
JointMass(j) ==
    [mA |-> j.m_invMassA, iA |-> j.m_invIA, mB |-> j.m_invMassB, iB |-> j.m_invIB]

\* v.Normalize(): the length it returns, and the vector it leaves
Normalized(v) == [length |-> Length(v), u |-> VNormalize(v)]

\* ------------------------------------------------------------- b2RopeJoint

\* new b2RopeJoint(def)
RopeJoint(bodyA, bodyB, localAnchorA, localAnchorB, maxLength) ==
    [type |-> "rope", m_bodyA |-> bodyA, m_bodyB |-> bodyB,
     m_localAnchorA |-> localAnchorA, m_localAnchorB |-> localAnchorB,
     m_maxLength |-> maxLength, m_length |-> Zero, m_impulse |-> Zero,
     m_indexA |-> 0, m_indexB |-> 0, m_u |-> VZero, m_rA |-> VZero, m_rB |-> VZero,
     m_localCenterA |-> VZero, m_localCenterB |-> VZero,
     m_invMassA |-> Zero, m_invMassB |-> Zero, m_invIA |-> Zero, m_invIB |-> Zero,
     m_mass |-> Zero]

RopeIsNum(j) ==
    /\ IsNum(j.m_length) /\ IsNum(j.m_impulse) /\ IsNum(j.m_mass)
    /\ VIsNum(j.m_u) /\ VIsNum(j.m_rA) /\ VIsNum(j.m_rB)

\* InitVelocityConstraints after the axis: the effective mass and the warm
\* start.
RopeWarmStart(j, loc, step) ==
    [joint |-> [j EXCEPT !.m_impulse = StartingImpulse(step, j.m_impulse)],
     loc |-> IF step.warmStarting
             THEN JointApply(j, loc, VScale(StartingImpulse(step, j.m_impulse), j.m_u))
             ELSE loc]

RopeMass(j, loc, step) ==
    RopeWarmStart([j EXCEPT !.m_mass = InverseIfNonZero(
                      AxisInvMass(j, Cross(j.m_rA, j.m_u), Cross(j.m_rB, j.m_u)))],
                  loc, step)

\* m_length = m_u.Length(); a rope no longer than b2_linearSlop has no
\* axis, no mass and no impulse, and the method returns.
RopeAxis(j, u, length, loc, step) ==
    IF ~IsNum(length) THEN [joint |-> [j EXCEPT !.m_length = NaR], loc |-> loc]
    ELSE IF RGt(length, b2_linearSlop)
    THEN RopeMass([j EXCEPT !.m_length = length, !.m_u = VScale(RInv(length), u)],
                  loc, step)
    ELSE [joint |-> [j EXCEPT !.m_length = length, !.m_u = VZero,
                              !.m_mass = Zero, !.m_impulse = Zero],
          loc |-> loc]

RopeSeparation(j, u, loc, step) == RopeAxis(j, u, Length(u), loc, step)

RopeArms(j, ploc, loc, step) ==
    RopeSeparation(j, AnchorSeparation(j, ploc.cA, ploc.cB), loc, step)

\* b2RopeJoint.InitVelocityConstraints(data): the joint and the velocities
\* of its two bodies after it.
RopeInitVelocity(j, bd, ploc, loc, step) ==
    RopeArms(WithArms(CopyBodyData(j, bd), ploc.aA, ploc.aB), ploc, loc, step)

\* Cdot = Dot(m_u, vpB - vpA), plus inv_dt * C when C = m_length -
\* m_maxLength < 0
RopeCdot(j, loc, step) ==
    LET Cdot == Dot(j.m_u, VSub(AddCrossScalarVec2(loc.vB, loc.wB, j.m_rB),
                                AddCrossScalarVec2(loc.vA, loc.wA, j.m_rA)))
        C == RSub(j.m_length, j.m_maxLength)
    IN  IF RLt(C, Zero) THEN RAdd(Cdot, RMul(step.inv_dt, C)) ELSE Cdot

\* The accumulated impulse without its clamp.
RopeUnclamped(impulse, lambda) == RAdd(impulse, lambda)

\* Math.min(0, m_impulse + impulse)
RopeClamp(impulse, lambda) == RMin(Zero, RAdd(impulse, lambda))

\* m_impulse becomes newImpulse and the difference is applied along m_u.
RopeApply(j, loc, newImpulse) ==
    [joint |-> [j EXCEPT !.m_impulse = newImpulse],
     loc |-> JointApply(j, loc, VScale(RSub(newImpulse, j.m_impulse), j.m_u))]

\* b2RopeJoint.SolveVelocityConstraints(data)
RopeSolveVelocity(j, loc, step) ==
    RopeApply(j, loc, RopeClamp(j.m_impulse, RNeg(RMul(j.m_mass, RopeCdot(j, loc, step)))))

\* C = b2Clamp(m_length - m_maxLength, 0, b2_maxLinearCorrection); the
\* impulse -m_mass * C along u; the value returned is m_length -
\* m_maxLength < b2_linearSlop.
RopeCorrect(j, ploc, n) ==
    [joint |-> [j EXCEPT !.m_u = n.u, !.m_length = n.length],
     ploc |-> ApplyPositionImpulse(JointMass(j), ploc, j.m_rA, j.m_rB,
                  VScale(RNeg(RMul(j.m_mass,
                             b2Clamp(RSub(n.length, j.m_maxLength), Zero,
                                     b2_maxLinearCorrection))), n.u)),
     C |-> b2Clamp(RSub(n.length, j.m_maxLength), Zero, b2_maxLinearCorrection),
     value |-> RLt(RSub(n.length, j.m_maxLength), b2_linearSlop)]

RopePositionArms(j, ploc) ==
    RopeCorrect(j, ploc, Normalized(AnchorSeparation(j, ploc.cA, ploc.cB)))

\* b2RopeJoint.SolvePositionConstraints(data): boolean
RopeSolvePosition(j, ploc) == RopePositionArms(WithArms(j, ploc.aA, ploc.aB), ploc)

\* --------------------------------------------------------- b2DistanceJoint

\* new b2DistanceJoint(def)
DistanceJoint(bodyA, bodyB, localAnchorA, localAnchorB, length, stiffness, damping) ==
    [type |-> "distance", m_bodyA |-> bodyA, m_bodyB |-> bodyB,
     m_stiffness |-> stiffness, m_damping |-> damping, m_bias |-> Zero,
     m_localAnchorA |-> localAnchorA, m_localAnchorB |-> localAnchorB,
     m_gamma |-> Zero, m_impulse |-> Zero, m_length |-> length,
     m_indexA |-> 0, m_indexB |-> 0, m_u |-> VZero, m_rA |-> VZero, m_rB |-> VZero,
     m_localCenterA |-> VZero, m_localCenterB |-> VZero,
     m_invMassA |-> Zero, m_invMassB |-> Zero, m_invIA |-> Zero, m_invIB |-> Zero,
     m_mass |-> Zero]

DistanceIsNum(j) ==
    /\ IsNum(j.m_bias) /\ IsNum(j.m_gamma) /\ IsNum(j.m_impulse) /\ IsNum(j.m_mass)
    /\ VIsNum(j.m_u) /\ VIsNum(j.m_rA) /\ VIsNum(j.m_rB)

\* The warm start of InitVelocityConstraints.
DistanceWarmStart(j, loc, step) ==
    [joint |-> [j EXCEPT !.m_impulse = StartingImpulse(step, j.m_impulse)],
     loc |-> IF step.warmStarting
             THEN JointApply(j, loc, VScale(StartingImpulse(step, j.m_impulse), j.m_u))
             ELSE loc]

\* m_gamma = h * (d + h * k); m_gamma = m_gamma !== 0 ? 1 / m_gamma : 0
DistanceGamma(j, h) ==
    InverseIfNonZero(RMul(h, RAdd(j.m_damping, RMul(h, j.m_stiffness))))

\* The soft constraint: gamma, the bias C * h * k * gamma for C = length -
\* m_length, and the mass of invMass + gamma.
DistanceSoft(j, length, invMass, h, gamma) ==
    [j EXCEPT !.m_gamma = gamma,
              !.m_bias = RMul(RMul(RMul(RSub(length, j.m_length), h), j.m_stiffness), gamma),
              !.m_mass = InverseIfNonZero(RAdd(invMass, gamma))]

\* The effective mass, soft when m_stiffness > 0.
DistanceMass(j, length, invMass, step) ==
    IF RGt(j.m_stiffness, Zero)
    THEN DistanceSoft(j, length, invMass, step.dt, DistanceGamma(j, step.dt))
    ELSE [j EXCEPT !.m_gamma = Zero, !.m_bias = Zero, !.m_mass = InverseIfNonZero(invMass)]

DistanceInvMass(j, length, loc, step) ==
    DistanceWarmStart(
        DistanceMass(j, length,
                     AxisInvMass(j, Cross(j.m_rA, j.m_u), Cross(j.m_rB, j.m_u)), step),
        loc, step)

\* Handle singularity: the axis of a separation no longer than
\* b2_linearSlop is zero.
DistanceAxis(j, u, length, loc, step) ==
    IF ~IsNum(length) THEN [joint |-> [j EXCEPT !.m_u = VNaR], loc |-> loc]
    ELSE DistanceInvMass([j EXCEPT !.m_u = IF RGt(length, b2_linearSlop)
                                          THEN VScale(RInv(length), u) ELSE VZero],
                         length, loc, step)

DistanceSeparation(j, u, loc, step) == DistanceAxis(j, u, Length(u), loc, step)

\* b2DistanceJoint.InitVelocityConstraints(data)
DistanceInitVelocity(j, bd, ploc, loc, step) ==
    DistanceSeparation(WithArms(CopyBodyData(j, bd), ploc.aA, ploc.aB),
                       AnchorSeparation(WithArms(CopyBodyData(j, bd), ploc.aA, ploc.aB),
                                        ploc.cA, ploc.cB),
                       loc, step)

\* Cdot = Dot(m_u, vpB - vpA)
DistanceCdot(j, loc) ==
    Dot(j.m_u, VSub(AddCrossScalarVec2(loc.vB, loc.wB, j.m_rB),
                    AddCrossScalarVec2(loc.vA, loc.wA, j.m_rA)))

\* m_impulse += impulse, and impulse is applied along m_u.
DistanceApply(j, loc, impulse) ==
    [joint |-> [j EXCEPT !.m_impulse = RAdd(j.m_impulse, impulse)],
     loc |-> JointApply(j, loc, VScale(impulse, j.m_u))]

\* b2DistanceJoint.SolveVelocityConstraints(data): impulse = -m_mass *
\* (Cdot + m_bias + m_gamma * m_impulse)
DistanceSolveVelocity(j, loc) ==
    DistanceApply(j, loc,
        RNeg(RMul(j.m_mass, RAdd(RAdd(DistanceCdot(j, loc), j.m_bias),
                                 RMul(j.m_gamma, j.m_impulse)))))

\* The correction of a distance joint satisfied by an error of
\* b2_linearSlop.
DistanceCorrectAtSlop(j, ploc, u, C) ==
    [joint |-> [j EXCEPT !.m_u = u],
     ploc |-> ApplyPositionImpulse(JointMass(j), ploc, j.m_rA, j.m_rB,
                  VScale(RNeg(RMul(j.m_mass, C)), u)),
     C |-> C,
     value |-> RLe(RAbs(C), b2_linearSlop)]

\* C = b2Clamp(length - m_length, -b2_maxLinearCorrection,
\* b2_maxLinearCorrection); the impulse -m_mass * C along u; the value
\* returned is b2Abs(C) < b2_linearSlop.
DistanceCorrect(j, ploc, u, C) ==
    [joint |-> [j EXCEPT !.m_u = u],
     ploc |-> ApplyPositionImpulse(JointMass(j), ploc, j.m_rA, j.m_rB,
                  VScale(RNeg(RMul(j.m_mass, C)), u)),
     C |-> C,
     value |-> RLt(RAbs(C), b2_linearSlop)]

\* The error of a distance joint taken whole.
DistanceErrorUnclamped(j, ploc, n) ==
    DistanceCorrect(j, ploc, n.u, RSub(n.length, j.m_length))

DistanceError(j, ploc, n) ==
    DistanceCorrect(j, ploc, n.u,
                    b2Clamp(RSub(n.length, j.m_length), RNeg(b2_maxLinearCorrection),
                            b2_maxLinearCorrection))

DistancePositionArms(j, ploc) ==
    DistanceError(j, ploc, Normalized(AnchorSeparation(j, ploc.cA, ploc.cB)))

\* The position correction of a hard constraint, whatever m_stiffness is.
DistanceSolveHard(j, ploc) == DistancePositionArms(WithArms(j, ploc.aA, ploc.aB), ploc)

\* b2DistanceJoint.SolvePositionConstraints(data): boolean.  There is no
\* position correction for soft distance constraints.
DistanceSolvePosition(j, ploc) ==
    IF RGt(j.m_stiffness, Zero)
    THEN [joint |-> j, ploc |-> ploc, C |-> Zero, value |-> TRUE]
    ELSE DistancePositionArms(WithArms(j, ploc.aA, ploc.aB), ploc)

\* ----------------------------------------------------------- b2PulleyJoint

\* new b2PulleyJoint(def): m_constant = lengthA + ratio * lengthB
PulleyJoint(bodyA, bodyB, groundAnchorA, groundAnchorB, localAnchorA, localAnchorB, lengthA, lengthB, ratio) ==
    [type |-> "pulley", m_bodyA |-> bodyA, m_bodyB |-> bodyB,
     m_groundAnchorA |-> groundAnchorA, m_groundAnchorB |-> groundAnchorB,
     m_lengthA |-> lengthA, m_lengthB |-> lengthB,
     m_localAnchorA |-> localAnchorA, m_localAnchorB |-> localAnchorB,
     m_constant |-> RAdd(lengthA, RMul(ratio, lengthB)), m_ratio |-> ratio,
     m_impulse |-> Zero,
     m_indexA |-> 0, m_indexB |-> 0, m_uA |-> VZero, m_uB |-> VZero,
     m_rA |-> VZero, m_rB |-> VZero,
     m_localCenterA |-> VZero, m_localCenterB |-> VZero,
     m_invMassA |-> Zero, m_invMassB |-> Zero, m_invIA |-> Zero, m_invIB |-> Zero,
     m_mass |-> Zero]

PulleyIsNum(j) ==
    /\ IsNum(j.m_impulse) /\ IsNum(j.m_mass)
    /\ VIsNum(j.m_uA) /\ VIsNum(j.m_uB) /\ VIsNum(j.m_rA) /\ VIsNum(j.m_rB)

\* A pulley axis without the threshold: u / length when length > 0.
PulleyAxisAboveZero(u, length) ==
    IF ~IsNum(length) THEN VNaR
    ELSE IF RGt(length, Zero) THEN VScale(RInv(length), u)
    ELSE VZero

\* A pulley axis: u / length when length > 10 * b2_linearSlop, else zero.
PulleyAxis(u, length) ==
    IF ~IsNum(length) THEN VNaR
    ELSE IF RGt(length, RMul(R(10), b2_linearSlop)) THEN VScale(RInv(length), u)
    ELSE VZero

\* m_uA = cA + m_rA - m_groundAnchorA and m_uB = cB + m_rB - m_groundAnchorB,
\* each made an axis.
PulleyAxes(j, uA, uB) ==
    [j EXCEPT !.m_uA = PulleyAxis(uA, Length(uA)), !.m_uB = PulleyAxis(uB, Length(uB))]

PulleyWithAxes(j, ploc) ==
    PulleyAxes(j, VSub(VAdd(ploc.cA, j.m_rA), j.m_groundAnchorA),
                  VSub(VAdd(ploc.cB, j.m_rB), j.m_groundAnchorB))

\* mA + m_ratio * m_ratio * mB for mA = m_invMassA + m_invIA * ruA * ruA and
\* mB = m_invMassB + m_invIB * ruB * ruB
PulleyInvMass(j, ruA, ruB) ==
    RAdd(RAdd(j.m_invMassA, RMul(RMul(j.m_invIA, ruA), ruA)),
         RMul(RMul(j.m_ratio, j.m_ratio),
              RAdd(j.m_invMassB, RMul(RMul(j.m_invIB, ruB), ruB))))

\* PA = -impulse * m_uA and PB = -m_ratio * impulse * m_uB, added to the
\* velocities.
PulleyApply(j, loc, impulse) ==
    [vA |-> VAddScaled(loc.vA, j.m_invMassA, VScale(RNeg(impulse), j.m_uA)),
     wA |-> RAdd(loc.wA, RMul(j.m_invIA, Cross(j.m_rA, VScale(RNeg(impulse), j.m_uA)))),
     vB |-> VAddScaled(loc.vB, j.m_invMassB,
                       VScale(RMul(RNeg(j.m_ratio), impulse), j.m_uB)),
     wB |-> RAdd(loc.wB, RMul(j.m_invIB,
                       Cross(j.m_rB, VScale(RMul(RNeg(j.m_ratio), impulse), j.m_uB))))]

\* The warm start of InitVelocityConstraints.
PulleyWarmStart(j, loc, step) ==
    [joint |-> [j EXCEPT !.m_impulse = StartingImpulse(step, j.m_impulse)],
     loc |-> IF step.warmStarting
             THEN PulleyApply(j, loc, StartingImpulse(step, j.m_impulse))
             ELSE loc]

PulleyMass(j, loc, step) ==
    PulleyWarmStart([j EXCEPT !.m_mass = InverseIfPositive(
                        PulleyInvMass(j, Cross(j.m_rA, j.m_uA), Cross(j.m_rB, j.m_uB)))],
                    loc, step)

\* b2PulleyJoint.InitVelocityConstraints(data)
PulleyInitVelocity(j, bd, ploc, loc, step) ==
    PulleyMass(PulleyWithAxes(WithArms(CopyBodyData(j, bd), ploc.aA, ploc.aB), ploc),
               loc, step)

\* Cdot = -Dot(m_uA, vpA) - m_ratio * Dot(m_uB, vpB)
PulleyCdot(j, loc) ==
    RSub(RNeg(Dot(j.m_uA, AddCrossScalarVec2(loc.vA, loc.wA, j.m_rA))),
         RMul(j.m_ratio, Dot(j.m_uB, AddCrossScalarVec2(loc.vB, loc.wB, j.m_rB))))

\* m_impulse += impulse, and impulse is applied.
PulleyAccumulate(j, loc, impulse) ==
    [joint |-> [j EXCEPT !.m_impulse = RAdd(j.m_impulse, impulse)],
     loc |-> PulleyApply(j, loc, impulse)]

\* b2PulleyJoint.SolveVelocityConstraints(data): impulse = -m_mass * Cdot
PulleySolveVelocity(j, loc) ==
    PulleyAccumulate(j, loc, RNeg(RMul(j.m_mass, PulleyCdot(j, loc))))

\* PA and PB of the impulse added to the positions.
PulleyApplyPosition(j, ploc, impulse) ==
    [cA |-> VAddScaled(ploc.cA, j.m_invMassA, VScale(RNeg(impulse), j.m_uA)),
     aA |-> AngleAdd(ploc.aA,
                RMul(j.m_invIA, Cross(j.m_rA, VScale(RNeg(impulse), j.m_uA)))),
     cB |-> VAddScaled(ploc.cB, j.m_invMassB,
                       VScale(RMul(RNeg(j.m_ratio), impulse), j.m_uB)),
     aB |-> AngleAdd(ploc.aB,
                RMul(j.m_invIB,
                     Cross(j.m_rB, VScale(RMul(RNeg(j.m_ratio), impulse), j.m_uB))))]

\* The impulse -mass * C; the value returned is linearError = Math.abs(C) <
\* b2_linearSlop.
PulleyCorrect(j, ploc, mass, C) ==
    [joint |-> j,
     ploc |-> PulleyApplyPosition(j, ploc, RNeg(RMul(mass, C))),
     C |-> C,
     value |-> RLt(RAbs(C), b2_linearSlop)]

\* C = m_constant - lengthA - m_ratio * lengthB, with the lengths and the
\* mass of the positions now.
PulleyError(j, ploc, lengthA, lengthB) ==
    PulleyCorrect(j, ploc,
        InverseIfPositive(PulleyInvMass(j, Cross(j.m_rA, j.m_uA), Cross(j.m_rB, j.m_uB))),
        RSub(RSub(j.m_constant, lengthA), RMul(j.m_ratio, lengthB)))

PulleyPositionAxes(j, ploc) ==
    PulleyError(PulleyWithAxes(j, ploc), ploc,
                Length(VSub(VAdd(ploc.cA, j.m_rA), j.m_groundAnchorA)),
                Length(VSub(VAdd(ploc.cB, j.m_rB), j.m_groundAnchorB)))

\* b2PulleyJoint.SolvePositionConstraints(data): boolean
PulleySolvePosition(j, ploc) == PulleyPositionAxes(WithArms(j, ploc.aA, ploc.aB), ploc)

\* ------------------------------------------------------------ b2WheelJoint

\* b2Vec2.CrossOneVec2(v) = (-v.y, v.x)
CrossOneVec2(v) == <<RNeg(v[2]), v[1]>>

\* new b2WheelJoint(def); lim holds enableLimit and the two translations,
\* motor enableMotor, maxMotorTorque and motorSpeed.
WheelJoint(bodyA, bodyB, localAnchorA, localAnchorB, localAxisA, lim, motor, stiffness, damping) ==
    [type |-> "wheel", m_bodyA |-> bodyA, m_bodyB |-> bodyB,
     m_localAnchorA |-> localAnchorA, m_localAnchorB |-> localAnchorB,
     m_localXAxisA |-> localAxisA, m_localYAxisA |-> CrossOneVec2(localAxisA),
     m_impulse |-> Zero, m_motorImpulse |-> Zero, m_springImpulse |-> Zero,
     m_lowerImpulse |-> Zero, m_upperImpulse |-> Zero, m_translation |-> Zero,
     m_lowerTranslation |-> lim.lowerTranslation,
     m_upperTranslation |-> lim.upperTranslation,
     m_maxMotorTorque |-> motor.maxMotorTorque, m_motorSpeed |-> motor.motorSpeed,
     m_enableLimit |-> lim.enableLimit, m_enableMotor |-> motor.enableMotor,
     m_stiffness |-> stiffness, m_damping |-> damping,
     m_indexA |-> 0, m_indexB |-> 0,
     m_localCenterA |-> VZero, m_localCenterB |-> VZero,
     m_invMassA |-> Zero, m_invMassB |-> Zero, m_invIA |-> Zero, m_invIB |-> Zero,
     m_ax |-> VZero, m_ay |-> VZero,
     m_sAx |-> Zero, m_sBx |-> Zero, m_sAy |-> Zero, m_sBy |-> Zero,
     m_mass |-> Zero, m_motorMass |-> Zero, m_axialMass |-> Zero, m_springMass |-> Zero,
     m_bias |-> Zero, m_gamma |-> Zero, m_rA |-> VZero, m_rB |-> VZero]

WheelIsNum(j) ==
    /\ IsNum(j.m_impulse) /\ IsNum(j.m_motorImpulse) /\ IsNum(j.m_springImpulse)
    /\ IsNum(j.m_lowerImpulse) /\ IsNum(j.m_upperImpulse) /\ IsNum(j.m_translation)
    /\ VIsNum(j.m_ax) /\ VIsNum(j.m_ay) /\ VIsNum(j.m_rA) /\ VIsNum(j.m_rB)
    /\ IsNum(j.m_sAx) /\ IsNum(j.m_sBx) /\ IsNum(j.m_sAy) /\ IsNum(j.m_sBy)
    /\ IsNum(j.m_mass) /\ IsNum(j.m_motorMass) /\ IsNum(j.m_axialMass)
    /\ IsNum(j.m_springMass) /\ IsNum(j.m_bias) /\ IsNum(j.m_gamma)

\* mA + mB + iA * sA * sA + iB * sB * sB
WheelInvMass(j, sA, sB) ==
    RAdd(RAdd(j.m_invMassA, j.m_invMassB),
         RAdd(RMul(RMul(j.m_invIA, sA), sA), RMul(RMul(j.m_invIB, sB), sB)))

\* Point to line constraint: m_ay, m_sAy, m_sBy and m_mass
WheelPointToLine(j, d, ay) ==
    [j EXCEPT !.m_ay = ay,
              !.m_sAy = Cross(VAdd(d, j.m_rA), ay),
              !.m_sBy = Cross(j.m_rB, ay),
              !.m_mass = InverseIfPositive(
                             WheelInvMass(j, Cross(VAdd(d, j.m_rA), ay), Cross(j.m_rB, ay)))]

\* invMass > 0 ? 1 / invMass : 0
AxialMass(invMass) ==
    IF ~IsNum(invMass) THEN NaR
    ELSE IF RGt(invMass, Zero) THEN RInv(invMass) ELSE Zero

\* m_gamma = h * (m_damping + h * m_stiffness); if (m_gamma > 0) m_gamma =
\* 1 / m_gamma
WheelGamma(j, h) ==
    InverseIfPositive(RMul(h, RAdd(j.m_damping, RMul(h, j.m_stiffness))))

\* The spring of the axis: gamma, the bias C * h * m_stiffness * gamma for
\* C = Dot(d, m_ax), and the mass of invMass + gamma.
WheelSoft(j, d, invMass, h, gamma) ==
    [j EXCEPT !.m_gamma = gamma,
              !.m_bias = RMul(RMul(RMul(Dot(d, j.m_ax), h), j.m_stiffness), gamma),
              !.m_springMass = InverseIfPositive(RAdd(invMass, gamma))]

\* m_axialMass, and the spring when m_stiffness > 0 and invMass > 0; without
\* the spring m_springImpulse = 0.
WheelAxial(j, d, invMass, step) ==
    IF ~IsNum(invMass) THEN [j EXCEPT !.m_axialMass = NaR]
    ELSE IF RGt(j.m_stiffness, Zero) /\ RGt(invMass, Zero)
    THEN WheelSoft([j EXCEPT !.m_axialMass = AxialMass(invMass)], d, invMass, step.dt,
                   WheelGamma(j, step.dt))
    ELSE [j EXCEPT !.m_axialMass = AxialMass(invMass), !.m_springMass = Zero,
                   !.m_bias = Zero, !.m_gamma = Zero, !.m_springImpulse = Zero]

\* Spring constraint: m_ax, m_sAx, m_sBx and the masses of the axis
WheelSpringAxis(j, d, ax, step) ==
    WheelAxial([j EXCEPT !.m_ax = ax,
                         !.m_sAx = Cross(VAdd(d, j.m_rA), ax),
                         !.m_sBx = Cross(j.m_rB, ax)],
               d, WheelInvMass(j, Cross(VAdd(d, j.m_rA), ax), Cross(j.m_rB, ax)), step)

\* m_translation with the limit enabled, else no limit impulses.
WheelLimit(j, d) ==
    IF j.m_enableLimit THEN [j EXCEPT !.m_translation = Dot(j.m_ax, d)]
    ELSE [j EXCEPT !.m_lowerImpulse = Zero, !.m_upperImpulse = Zero]

\* m_motorMass = iA + iB, inverted when > 0, with the motor enabled; else
\* no motor mass and no motor impulse.
WheelMotor(j) ==
    IF j.m_enableMotor
    THEN [j EXCEPT !.m_motorMass = InverseIfPositive(RAdd(j.m_invIA, j.m_invIB))]
    ELSE [j EXCEPT !.m_motorMass = Zero, !.m_motorImpulse = Zero]

\* vA -= mA * P; wA -= iA * LA; vB += mB * P; wB += iB * LB
WheelApply(j, loc, P, LA, LB) ==
    [vA |-> VSubScaled(loc.vA, j.m_invMassA, P),
     wA |-> RSub(loc.wA, RMul(j.m_invIA, LA)),
     vB |-> VAddScaled(loc.vB, j.m_invMassB, P),
     wB |-> RAdd(loc.wB, RMul(j.m_invIB, LB))]

\* The impulses applied by the warm start: P = m_impulse * m_ay +
\* axialImpulse * m_ax, LA and LB, axialImpulse = m_springImpulse +
\* m_lowerImpulse - m_upperImpulse.
WheelApplyStart(j, loc, axialImpulse) ==
    WheelApply(j, loc,
               VAdd(VScale(j.m_impulse, j.m_ay), VScale(axialImpulse, j.m_ax)),
               RAdd(RAdd(RMul(j.m_impulse, j.m_sAy), RMul(axialImpulse, j.m_sAx)),
                    j.m_motorImpulse),
               RAdd(RAdd(RMul(j.m_impulse, j.m_sBy), RMul(axialImpulse, j.m_sBx)),
                    j.m_motorImpulse))

\* Account for variable time step: m_impulse, m_springImpulse and
\* m_motorImpulse are multiplied by dtRatio.
WheelScaled(j, step) ==
    [j EXCEPT !.m_impulse = RMul(j.m_impulse, step.dtRatio),
              !.m_springImpulse = RMul(j.m_springImpulse, step.dtRatio),
              !.m_motorImpulse = RMul(j.m_motorImpulse, step.dtRatio)]

WheelStarted(j, loc) ==
    [joint |-> j,
     loc |-> WheelApplyStart(j, loc,
                 RSub(RAdd(j.m_springImpulse, j.m_lowerImpulse), j.m_upperImpulse))]

\* The warm start of InitVelocityConstraints.
WheelWarmStart(j, loc, step) ==
    IF step.warmStarting
    THEN WheelStarted(WheelScaled(j, step), loc)
    ELSE [joint |-> [j EXCEPT !.m_impulse = Zero, !.m_springImpulse = Zero,
                              !.m_motorImpulse = Zero, !.m_lowerImpulse = Zero,
                              !.m_upperImpulse = Zero],
          loc |-> loc]

WheelAxes(j, d, aA, loc, step) ==
    WheelWarmStart(
        WheelMotor(WheelLimit(
            WheelSpringAxis(WheelPointToLine(j, d, RotMulVec2(Rot(aA), j.m_localYAxisA)),
                            d, RotMulVec2(Rot(aA), j.m_localXAxisA), step),
            d)),
        loc, step)

WheelArms(j, ploc, loc, step) ==
    WheelAxes(j, AnchorSeparation(j, ploc.cA, ploc.cB), ploc.aA, loc, step)

\* b2WheelJoint.InitVelocityConstraints(data)
WheelInitVelocity(j, bd, ploc, loc, step) ==
    WheelArms(WithArms(CopyBodyData(j, bd), ploc.aA, ploc.aB), ploc, loc, step)

\* Cdot along the axis: Dot(m_ax, vB - vA) + m_sBx * wB - m_sAx * wA
WheelAxialCdot(j, loc) ==
    RSub(RAdd(Dot(j.m_ax, VSub(loc.vB, loc.vA)), RMul(j.m_sBx, loc.wB)),
         RMul(j.m_sAx, loc.wA))

\* Cdot of the upper limit: Dot(m_ax, vA - vB) + m_sAx * wA - m_sBx * wB
WheelUpperCdot(j, loc) ==
    RSub(RAdd(Dot(j.m_ax, VSub(loc.vA, loc.vB)), RMul(j.m_sAx, loc.wA)),
         RMul(j.m_sBx, loc.wB))

\* Cdot of the motor: wB - wA - m_motorSpeed
WheelMotorCdot(j, loc) == RSub(RSub(loc.wB, loc.wA), j.m_motorSpeed)

\* Cdot across the axis: Dot(m_ay, vB - vA) + m_sBy * wB - m_sAy * wA
WheelPerpendicularCdot(j, loc) ==
    RSub(RAdd(Dot(j.m_ay, VSub(loc.vB, loc.vA)), RMul(j.m_sBy, loc.wB)),
         RMul(j.m_sAy, loc.wA))

\* The impulse along the axis: P = impulse * m_ax, LA = impulse * m_sAx,
\* LB = impulse * m_sBx
WheelApplyAxial(j, loc, impulse) ==
    WheelApply(j, loc, VScale(impulse, j.m_ax), RMul(impulse, j.m_sAx),
               RMul(impulse, j.m_sBx))

\* Solve spring constraint
WheelSpringImpulse(j, loc, Cdot, impulse) ==
    [joint |-> [j EXCEPT !.m_springImpulse = RAdd(j.m_springImpulse, impulse)],
     loc |-> WheelApplyAxial(j, loc, impulse),
     Cdot |-> Cdot]

WheelSpringCdot(j, loc, Cdot) ==
    WheelSpringImpulse(j, loc, Cdot,
        RNeg(RMul(j.m_springMass,
                  RAdd(RAdd(Cdot, j.m_bias), RMul(j.m_gamma, j.m_springImpulse)))))

WheelSpring(j, loc, step) == WheelSpringCdot(j, loc, WheelAxialCdot(j, loc))

\* Solve rotational motor constraint: the accumulated impulse is clamped
\* to dt * m_maxMotorTorque either way.
WheelMotorImpulse(j, loc, Cdot, newImpulse) ==
    [joint |-> [j EXCEPT !.m_motorImpulse = newImpulse],
     loc |-> [loc EXCEPT !.wA = RSub(loc.wA, RMul(j.m_invIA, RSub(newImpulse, j.m_motorImpulse))),
                         !.wB = RAdd(loc.wB, RMul(j.m_invIB, RSub(newImpulse, j.m_motorImpulse)))],
     Cdot |-> Cdot]

\* The motor constraint without its clamp.
WheelMotorUnclamped(j, loc, Cdot, maxImpulse) ==
    WheelMotorImpulse(j, loc, Cdot, RAdd(j.m_motorImpulse, RNeg(RMul(j.m_motorMass, Cdot))))

WheelMotorClamp(j, loc, Cdot, maxImpulse) ==
    WheelMotorImpulse(j, loc, Cdot,
        b2Clamp(RAdd(j.m_motorImpulse, RNeg(RMul(j.m_motorMass, Cdot))),
                RNeg(maxImpulse), maxImpulse))

WheelSolveMotor(j, loc, step) ==
    WheelMotorClamp(j, loc, WheelMotorCdot(j, loc), RMul(step.dt, j.m_maxMotorTorque))

\* Lower limit: C = m_translation - m_lowerTranslation, impulse =
\* -m_axialMass * (Cdot + Math.max(C, 0) * inv_dt), accumulated above 0
WheelLowerImpulse(j, loc, Cdot, newImpulse) ==
    [joint |-> [j EXCEPT !.m_lowerImpulse = newImpulse],
     loc |-> WheelApplyAxial(j, loc, RSub(newImpulse, j.m_lowerImpulse)),
     Cdot |-> Cdot]

WheelLowerCdot(j, loc, step, Cdot) ==
    WheelLowerImpulse(j, loc, Cdot,
        RMax(RAdd(j.m_lowerImpulse,
                  RNeg(RMul(j.m_axialMass,
                            RAdd(Cdot, RMul(RMax(RSub(j.m_translation, j.m_lowerTranslation),
                                                 Zero), step.inv_dt))))),
             Zero))

WheelLower(j, loc, step) == WheelLowerCdot(j, loc, step, WheelAxialCdot(j, loc))

\* Upper limit, the signs flipped: C = m_upperTranslation - m_translation,
\* and the impulse is applied the other way.
WheelUpperImpulse(j, loc, Cdot, newImpulse) ==
    [joint |-> [j EXCEPT !.m_upperImpulse = newImpulse],
     loc |-> WheelApplyAxial(j, loc, RNeg(RSub(newImpulse, j.m_upperImpulse))),
     Cdot |-> Cdot]

WheelUpperCdotOf(j, loc, step, Cdot) ==
    WheelUpperImpulse(j, loc, Cdot,
        RMax(RAdd(j.m_upperImpulse,
                  RNeg(RMul(j.m_axialMass,
                            RAdd(Cdot, RMul(RMax(RSub(j.m_upperTranslation, j.m_translation),
                                                 Zero), step.inv_dt))))),
             Zero))

WheelUpper(j, loc, step) == WheelUpperCdotOf(j, loc, step, WheelUpperCdot(j, loc))

\* Solve point to line constraint
WheelLineImpulse(j, loc, Cdot, impulse) ==
    [joint |-> [j EXCEPT !.m_impulse = RAdd(j.m_impulse, impulse)],
     loc |-> WheelApply(j, loc, VScale(impulse, j.m_ay), RMul(impulse, j.m_sAy),
                        RMul(impulse, j.m_sBy)),
     Cdot |-> Cdot]

WheelLineCdot(j, loc, Cdot) == WheelLineImpulse(j, loc, Cdot, RNeg(RMul(j.m_mass, Cdot)))

WheelLine(j, loc, step) == WheelLineCdot(j, loc, WheelPerpendicularCdot(j, loc))

\* A block of SolveVelocityConstraints that left the velocities as it found
\* them for the blocks after it.
WheelBlockUnseen(run, name, r) ==
    [joint |-> r.joint, loc |-> run.loc,
     trace |-> Append(run.trace, [name |-> name, joint |-> run.joint, before |-> run.loc,
                                  Cdot |-> r.Cdot, after |-> r.loc])]

\* A block of SolveVelocityConstraints: it reads the joint and vA, wA, vB,
\* wB as the blocks before it left them, and leaves them for the next.
WheelBlock(run, name, r) ==
    [joint |-> r.joint, loc |-> r.loc,
     trace |-> Append(run.trace, [name |-> name, joint |-> run.joint, before |-> run.loc,
                                  Cdot |-> r.Cdot, after |-> r.loc])]

WheelSpringBlock(run, step) ==
    WheelBlock(run, "spring", WheelSpring(run.joint, run.loc, step))
WheelMotorBlock(run, step) ==
    WheelBlock(run, "motor", WheelSolveMotor(run.joint, run.loc, step))
WheelLowerBlock(run, step) ==
    WheelBlock(run, "lower", WheelLower(run.joint, run.loc, step))
WheelUpperBlock(run, step) ==
    WheelBlock(run, "upper", WheelUpper(run.joint, run.loc, step))
WheelLineBlock(run, step) ==
    WheelBlock(run, "perpendicular", WheelLine(run.joint, run.loc, step))

\* if (m_enableLimit) { lower limit; upper limit }
WheelLimitBlocks(run, step) ==
    IF run.joint.m_enableLimit
    THEN WheelUpperBlock(WheelLowerBlock(run, step), step)
    ELSE run

\* b2WheelJoint.SolveVelocityConstraints(data): the joint and the
\* velocities after it, and what each block read and did.
WheelSolveVelocity(j, loc, step) ==
    WheelLineBlock(
        WheelLimitBlocks(
            WheelMotorBlock(
                WheelSpringBlock([joint |-> j, loc |-> loc, trace |-> <<>>], step),
                step),
            step),
        step)

\* impulse = invMass !== 0 ? -C / invMass : 0
WheelPositionImpulse(C, invMass) ==
    IF ~IsNum(C) \/ ~IsNum(invMass) THEN NaR
    ELSE IF invMass[1] # 0 THEN RDiv(RNeg(C), invMass) ELSE Zero

\* cA -= mA * P; aA -= iA * LA; cB += mB * P; aB += iB * LB, for the
\* impulse along axis with the crosses sA and sB
WheelApplyPosition(j, ploc, axis, sA, sB, impulse) ==
    [cA |-> VSubScaled(ploc.cA, j.m_invMassA, VScale(impulse, axis)),
     aA |-> AngleSub(ploc.aA, RMul(j.m_invIA, RMul(impulse, sA))),
     cB |-> VAddScaled(ploc.cB, j.m_invMassB, VScale(impulse, axis)),
     aB |-> AngleAdd(ploc.aB, RMul(j.m_invIB, RMul(impulse, sB)))]

\* C of the limit: the translation itself when the limits are within 2 *
\* b2_linearSlop of each other, else what lies beyond the limit reached.
WheelLimitError(j, translation) ==
    IF ~IsNum(translation) THEN NaR
    ELSE IF RLt(RAbs(RSub(j.m_upperTranslation, j.m_lowerTranslation)),
                RMul(R(2), b2_linearSlop))
    THEN translation
    ELSE IF RLe(translation, j.m_lowerTranslation)
    THEN RMin(RSub(translation, j.m_lowerTranslation), Zero)
    ELSE IF RGe(translation, j.m_upperTranslation)
    THEN RMax(RSub(translation, j.m_upperTranslation), Zero)
    ELSE Zero

\* if (C !== 0) the positions move along ax and linearError = Math.abs(C)
WheelLimitCorrect(j, ploc, sAx, sBx, C) ==
    IF IsNum(C) /\ C[1] = 0
    THEN [joint |-> j, ploc |-> ploc, linearError |-> Zero, errors |-> <<>>]
    ELSE [joint |-> j,
          ploc |-> WheelApplyPosition(j, ploc, j.m_ax, sAx, sBx,
                       WheelPositionImpulse(C, WheelInvMass(j, sAx, sBx))),
          linearError |-> RAbs(C), errors |-> <<C>>]

WheelLimitAxis(j, ploc, d) ==
    WheelLimitCorrect(j, ploc, Cross(VAdd(d, j.m_rA), j.m_ax), Cross(j.m_rB, j.m_ax),
                      WheelLimitError(j, Dot(j.m_ax, d)))

WheelLimitArms(j, ploc) ==
    WheelLimitAxis([j EXCEPT !.m_ax = RotMulVec2(Rot(ploc.aA), j.m_localXAxisA)], ploc,
                   VAdd(VSub(ploc.cB, ploc.cA), VSub(j.m_rB, j.m_rA)))

\* The limit of SolvePositionConstraints, when enabled
WheelLimitPosition(j, ploc) ==
    IF j.m_enableLimit
    THEN WheelLimitArms(WithArms(j, ploc.aA, ploc.aB), ploc)
    ELSE [joint |-> j, ploc |-> ploc, linearError |-> Zero, errors |-> <<>>]

\* Solve perpendicular constraint: C = Dot(d, ay), the mass being that of
\* m_sAy and m_sBy; linearError = Math.max(linearError, Math.abs(C)) and
\* the value returned is linearError <= b2_linearSlop.
WheelLineCorrect(j, ploc, lim, ay, sAy, sBy, C) ==
    [joint |-> [j EXCEPT !.m_ay = ay],
     ploc |-> WheelApplyPosition(j, ploc, ay, sAy, sBy,
                  WheelPositionImpulse(C, WheelInvMass(j, j.m_sAy, j.m_sBy))),
     C |-> RMax(lim.linearError, RAbs(C)),
     errors |-> Append(lim.errors, C),
     value |-> RLe(RMax(lim.linearError, RAbs(C)), b2_linearSlop)]

WheelLineAxis(j, ploc, lim, d, ay) ==
    WheelLineCorrect(j, ploc, lim, ay, Cross(VAdd(d, j.m_rA), ay), Cross(j.m_rB, ay),
                     Dot(d, ay))

WheelLineArms(j, ploc, lim) ==
    WheelLineAxis(j, ploc, lim, VAdd(VSub(ploc.cB, ploc.cA), VSub(j.m_rB, j.m_rA)),
                  RotMulVec2(Rot(ploc.aA), j.m_localYAxisA))

WheelLinePosition(lim) ==
    WheelLineArms(WithArms(lim.joint, lim.ploc.aA, lim.ploc.aB), lim.ploc, lim)

\* b2WheelJoint.SolvePositionConstraints(data): boolean
WheelSolvePosition(j, ploc) == WheelLinePosition(WheelLimitPosition(j, ploc))

\* b2WheelJoint.EnableMotor(flag), EnableLimit(flag), SetLimits(lower,
\* upper): the joint after the call, and whether the call woke the bodies.
WheelEnableMotor(j, flag) ==
    IF flag # j.m_enableMotor
    THEN [joint |-> [j EXCEPT !.m_enableMotor = flag], wake |-> TRUE]
    ELSE [joint |-> j, wake |-> FALSE]

\* EnableLimit that leaves the limit impulses.
WheelEnableLimitKeeping(j, flag) ==
    IF flag # j.m_enableLimit
    THEN [joint |-> [j EXCEPT !.m_enableLimit = flag], wake |-> TRUE]
    ELSE [joint |-> j, wake |-> FALSE]

WheelEnableLimit(j, flag) ==
    IF flag # j.m_enableLimit
    THEN [joint |-> [j EXCEPT !.m_enableLimit = flag,
                              !.m_lowerImpulse = Zero, !.m_upperImpulse = Zero],
          wake |-> TRUE]
    ELSE [joint |-> j, wake |-> FALSE]

WheelSetLimits(j, lower, upper) ==
    IF lower # j.m_lowerTranslation \/ upper # j.m_upperTranslation
    THEN [joint |-> [j EXCEPT !.m_lowerTranslation = lower, !.m_upperTranslation = upper,
                              !.m_lowerImpulse = Zero, !.m_upperImpulse = Zero],
          wake |-> TRUE]
    ELSE [joint |-> j, wake |-> FALSE]

\* -------------------------------------------------- the joint of the island

\* The methods of b2Joint, dispatched on the joint's type.
JointIsNum(j) ==
    CASE j.type = "rope" -> RopeIsNum(j)
      [] j.type = "distance" -> DistanceIsNum(j)
      [] j.type = "pulley" -> PulleyIsNum(j)
      [] j.type = "wheel" -> WheelIsNum(j)

\* joint.InitVelocityConstraints(data)
JointInitVelocity(j, bd, ploc, loc, step) ==
    CASE j.type = "rope" -> RopeInitVelocity(j, bd, ploc, loc, step)
      [] j.type = "distance" -> DistanceInitVelocity(j, bd, ploc, loc, step)
      [] j.type = "pulley" -> PulleyInitVelocity(j, bd, ploc, loc, step)
      [] j.type = "wheel" -> WheelInitVelocity(j, bd, ploc, loc, step)

\* A pass of a joint that is no wheel joint: it has no blocks.
NoBlocks(r) == [joint |-> r.joint, loc |-> r.loc, trace |-> <<>>]

\* joint.SolveVelocityConstraints(data)
JointSolveVelocity(j, loc, step) ==
    CASE j.type = "rope" -> NoBlocks(RopeSolveVelocity(j, loc, step))
      [] j.type = "distance" -> NoBlocks(DistanceSolveVelocity(j, loc))
      [] j.type = "pulley" -> NoBlocks(PulleySolveVelocity(j, loc))
      [] j.type = "wheel" -> WheelSolveVelocity(j, loc, step)

\* joint.SolvePositionConstraints(data)
JointSolvePosition(j, ploc) ==
    CASE j.type = "rope" -> RopeSolvePosition(j, ploc)
      [] j.type = "distance" -> DistanceSolvePosition(j, ploc)
      [] j.type = "pulley" -> PulleySolvePosition(j, ploc)
      [] j.type = "wheel" -> WheelSolvePosition(j, ploc)

\* data.velocities and data.positions of the joint's two bodies.
JointLocal(j) == Local(m_velocities[j.m_bodyA], m_velocities[j.m_bodyB])
JointPosLocal(j) == PosLocal(m_positions[j.m_bodyA], m_positions[j.m_bodyB])

\* InitVelocityConstraints(data) of the island's joint, after the contact
\* solver's InitializeVelocityConstraints; data.step is the step of
\* Initialize.
JointInitVelocityConstraints ==
    /\ pc = "ready"
    /\ joint.type # "none"
    /\ \E r \in {JointInitVelocity(joint, bodies, JointPosLocal(joint), JointLocal(joint),
                                   m_step)} :
           /\ joint' = r.joint
           /\ JointIsNum(r.joint)
           /\ LocalIsNum(r.loc)
           /\ m_velocities' = [m_velocities EXCEPT
                                  ![joint.m_bodyA] = Velocity(r.loc.vA, r.loc.wA),
                                  ![joint.m_bodyB] = Velocity(r.loc.vB, r.loc.wB)]
    /\ pc' = "joints"
    /\ passes' = 0
    /\ lastOp' = [op |-> "JointInitVelocityConstraints", arg |-> m_step,
                  blockSolve |-> g_blockSolve]
    /\ pre' = Snapshot
    /\ trace' = <<>>
    /\ ret' = NoRet
    /\ UNCHANGED <<solvers, scratch, bodies, contacts, manifolds, m_positions, m_step, m_count,
                   solverArrays, g_blockSolve, steps>>

\* SolveVelocityConstraints(data) of the island's joint: a velocity
\* iteration.
JointSolveVelocityConstraints ==
    /\ pc = "joints"
    /\ passes < MaxPasses
    /\ \E r \in {JointSolveVelocity(joint, JointLocal(joint), m_step)} :
           /\ joint' = r.joint
           /\ JointIsNum(r.joint)
           /\ LocalIsNum(r.loc)
           /\ \A k \in DOMAIN r.trace : IsNum(r.trace[k].Cdot)
           /\ m_velocities' = [m_velocities EXCEPT
                                  ![joint.m_bodyA] = Velocity(r.loc.vA, r.loc.wA),
                                  ![joint.m_bodyB] = Velocity(r.loc.vB, r.loc.wB)]
           /\ trace' = r.trace
    /\ passes' = passes + 1
    /\ lastOp' = [op |-> "JointSolveVelocityConstraints", arg |-> <<>>,
                  blockSolve |-> g_blockSolve]
    /\ pre' = Snapshot
    /\ ret' = NoRet
    /\ UNCHANGED <<solvers, scratch, bodies, contacts, manifolds, m_positions, m_step, m_count,
                   solverArrays, g_blockSolve, pc, steps>>

\* SolvePositionConstraints(data) of the island's joint: a position
\* iteration.  The iterations end when it returns true or MaxPosPasses of
\* them have run.
JointSolvePositionConstraints ==
    /\ pc \in {"joints", "positions"}
    /\ \E r \in {JointSolvePosition(joint, JointPosLocal(joint))} :
       \E n \in {IF pc = "joints" THEN 1 ELSE passes + 1} :
           /\ joint' = r.joint
           /\ JointIsNum(r.joint)
           /\ IsNum(r.C)
           /\ PositionsAreNum(<<Position(r.ploc.cA, r.ploc.aA),
                                Position(r.ploc.cB, r.ploc.aB)>>)
           /\ m_positions' = [m_positions EXCEPT
                                 ![joint.m_bodyA] = Position(r.ploc.cA, r.ploc.aA),
                                 ![joint.m_bodyB] = Position(r.ploc.cB, r.ploc.aB)]
           /\ ret' = [value |-> r.value, C |-> r.C]
           /\ passes' = n
           /\ pc' = IF r.value \/ n >= MaxPosPasses THEN "idle" ELSE "positions"
    /\ lastOp' = [op |-> "JointSolvePositionConstraints", arg |-> <<>>,
                  blockSolve |-> g_blockSolve]
    /\ pre' = Snapshot
    /\ trace' = <<>>
    /\ UNCHANGED <<solvers, scratch, bodies, contacts, manifolds, m_velocities, m_step, m_count,
                   solverArrays, g_blockSolve, steps>>

\* ------------------------------------------- the islands with a joint

\* data.step: dt, inv_dt = 1 / dt (0 for dt = 0), dtRatio = dt / the dt of
\* the step before, warmStarting.
JointStepParams ==
    {[dt |-> <<1, 4>>, inv_dt |-> R(4), dtRatio |-> One, warmStarting |-> TRUE],
     [dt |-> <<1, 4>>, inv_dt |-> R(4), dtRatio |-> <<1, 2>>, warmStarting |-> TRUE],
     [dt |-> <<1, 4>>, inv_dt |-> R(4), dtRatio |-> One, warmStarting |-> FALSE],
     [dt |-> Zero, inv_dt |-> Zero, dtRatio |-> Zero, warmStarting |-> TRUE]}

\* Body A (1) and body B (2): a static and a dynamic body, two dynamic
\* bodies, two bodies without mass.
StaticAndDynamic == <<Body(Zero, Zero, VZero), Body(One, One, VZero)>>
TwoDynamic == <<Body(One, One, VZero), Body(<<1, 2>>, <<1, 2>>, VZero)>>
TwoMassless == <<Body(Zero, Zero, VZero), Body(Zero, Zero, VZero)>>

\* Velocities of body B.
JointVelocities == {Velocity(Vec(3, 4), Zero), Velocity(Vec(0, -1), One)}

JointIsland(bd, cA, cB, vB, j, layout) ==
    [bodies |-> bd, positions |-> <<Position(cA, NoAngle), Position(cB, NoAngle)>>,
     velocities |-> <<Velocity(VZero, Zero), vB>>, joint |-> j, layout |-> layout]

\* Where body B is, body A being at the origin and its anchor too: its
\* anchor is 5, 4, 0, b2_linearSlop and 5 away, the last at the end of an
\* arm.
AnchorGeometry ==
    {[localAnchorB |-> VZero, cB |-> Vec(3, 4)],
     [localAnchorB |-> VZero, cB |-> Vec(0, 4)],
     [localAnchorB |-> VZero, cB |-> VZero],
     [localAnchorB |-> VZero, cB |-> <<b2_linearSlop, Zero>>],
     [localAnchorB |-> Vec(1, 0), cB |-> Vec(2, 4)]}

\* Lengths that are 4 less or more half of, once and twice b2_linearSlop.
NearFour == {<<1599, 400>>, <<799, 200>>, <<399, 100>>, <<1601, 400>>, <<801, 200>>}

RopeIslands ==
    {JointIsland(StaticAndDynamic, VZero, g.cB, vB,
                 RopeJoint(1, 2, VZero, g.localAnchorB, maxLength), <<>>) :
        g \in AnchorGeometry, vB \in JointVelocities, maxLength \in {R(4), R(5)}}
    \cup
    {JointIsland(StaticAndDynamic, VZero, Vec(0, 4), Velocity(Vec(0, -1), One),
                 RopeJoint(1, 2, VZero, VZero, maxLength), <<>>) :
        maxLength \in NearFour}
    \cup
    {JointIsland(bd, VZero, Vec(3, 4), Velocity(Vec(3, 4), Zero),
                 RopeJoint(1, 2, VZero, VZero, R(4)), <<>>) :
        bd \in {TwoDynamic, TwoMassless}}

\* Hard and soft distance joints of length 4.
Springs == {[stiffness |-> Zero, damping |-> Zero], [stiffness |-> R(2), damping |-> One]}

DistanceIslands ==
    {JointIsland(StaticAndDynamic, VZero, g.cB, vB,
                 DistanceJoint(1, 2, VZero, g.localAnchorB, R(4), k.stiffness, k.damping),
                 <<>>) :
        g \in AnchorGeometry, vB \in JointVelocities, k \in Springs}
    \cup
    {JointIsland(StaticAndDynamic, VZero, Vec(0, 4), Velocity(Vec(0, -1), One),
                 DistanceJoint(1, 2, VZero, VZero, length, Zero, Zero), <<>>) :
        length \in NearFour}
    \cup
    {JointIsland(bd, VZero, Vec(0, 4), Velocity(Vec(0, -1), One),
                 DistanceJoint(1, 2, VZero, VZero, R(4), k.stiffness, k.damping), <<>>) :
        bd \in {TwoDynamic, TwoMassless}, k \in Springs}

\* A rope of maximum length 0 and distance joints of length 0 between
\* anchors 2 * b2_linearSlop apart: a position iteration brings the anchors
\* together.
ShortIslands ==
    {JointIsland(StaticAndDynamic, VZero, <<Zero, <<1, 100>>>>, vB,
                 RopeJoint(1, 2, VZero, VZero, Zero), <<>>) : vB \in JointVelocities}
    \cup
    {JointIsland(StaticAndDynamic, VZero, <<Zero, <<1, 100>>>>, vB,
                 DistanceJoint(1, 2, VZero, VZero, Zero, k.stiffness, k.damping), <<>>) :
        vB \in JointVelocities, k \in Springs}

\* Pulleys: the ground anchors are (-2, 4) and (2, 4), body A hangs 4, 0 or
\* 10 * b2_linearSlop below the first and body B 3 below the second; the
\* lengths of the definition are 4 and 3 or a little less or more.
PulleyLengths == {R(3), <<1199, 400>>, <<599, 200>>, <<299, 100>>, <<601, 200>>}
PulleyHangs == {R(4), Zero, RMul(R(10), b2_linearSlop)}

PulleyIslands ==
    {JointIsland(TwoDynamic, <<R(-2), RSub(R(4), hang)>>, Vec(2, 1), vB,
                 PulleyJoint(1, 2, Vec(-2, 4), Vec(2, 4), VZero, VZero, R(4), lengthB,
                             One), <<>>) :
        hang \in PulleyHangs, lengthB \in PulleyLengths, vB \in JointVelocities}
    \cup
    {JointIsland(bd, Vec(-2, 0), Vec(2, 1), Velocity(Vec(0, -1), One),
                 PulleyJoint(1, 2, Vec(-2, 4), Vec(2, 4), VZero, Vec(1, 0), R(4), R(3),
                             R(2)), <<>>) :
        bd \in {TwoDynamic, StaticAndDynamic, TwoMassless}}

\* Wheels: the axis of body A is (0, 1); body B is 1 or 2 below body A and
\* nothing, half, once or twice b2_linearSlop beside the axis, or its anchor
\* is at the end of an arm.
WheelLimits ==
    {[enableLimit |-> FALSE, lowerTranslation |-> Zero, upperTranslation |-> Zero],
     [enableLimit |-> TRUE, lowerTranslation |-> <<-3, 2>>, upperTranslation |-> <<-1, 2>>]}
WheelMotors ==
    {[enableMotor |-> FALSE, maxMotorTorque |-> Zero, motorSpeed |-> Zero],
     [enableMotor |-> TRUE, maxMotorTorque |-> R(2), motorSpeed |-> R(2)]}
WheelPlaces ==
    {Vec(0, -1), <<<<1, 400>>, R(-1)>>, <<<<1, 200>>, R(-1)>>, <<<<1, 100>>, R(-1)>>,
     Vec(0, -2)}

WheelIslands ==
    {JointIsland(StaticAndDynamic, VZero, cB, vB,
                 WheelJoint(1, 2, VZero, VZero, Vec(0, 1), lim, motor,
                            k.stiffness, k.damping), <<>>) :
        cB \in WheelPlaces, vB \in JointVelocities, lim \in WheelLimits,
        motor \in WheelMotors, k \in Springs}
    \cup
    {JointIsland(bd, VZero, Vec(0, -2), Velocity(Vec(0, -1), One),
                 WheelJoint(1, 2, VZero, Vec(1, 0), Vec(0, 1), lim, motor,
                            R(2), One), <<>>) :
        bd \in {TwoDynamic, TwoMassless}, lim \in WheelLimits, motor \in WheelMotors}
    \cup
    {JointIsland(TwoDynamic, VZero, cB, vB,
                 WheelJoint(1, 2, VZero, Vec(1, 1), Vec(0, 1), lim, motor,
                            R(2), One), <<>>) :
        cB \in {Vec(0, -2), Vec(0, -3)},
        vB \in {Velocity(Vec(0, -4), One), Velocity(Vec(1, 4), Zero)},
        lim \in WheelLimits, motor \in WheelMotors}

\* Islands with a contact of the two bodies beside the joint.
JointContact ==
    [contact |-> Contact(1, 2, <<1, 2>>, Zero, VelocityThreshold, Zero,
                         b2_linearSlop, b2_linearSlop),
     manifold |-> Manifold(e_faceA, Vec(0, 1), Vec(0, 0),
                           <<ManifoldPoint(Vec(-1, -1), Zero, Zero),
                             ManifoldPoint(Vec(1, -1), Zero, Zero)>>, 2)]

ContactIslands ==
    {JointIsland(bd, VZero, Vec(0, 4), Velocity(Vec(0, -1), One),
                 RopeJoint(1, 2, VZero, VZero, R(4)), <<JointContact>>) :
        bd \in {StaticAndDynamic, TwoDynamic, TwoMassless}}

JointIslands ==
    RopeIslands \cup DistanceIslands \cup ShortIslands \cup PulleyIslands
    \cup WheelIslands
    \cup ContactIslands

\* The world manifolds of the contact beside the joint: points beside the
\* two bodies, and points at their centres (arms of length zero).
JointWorldManifolds ==
    {[i \in 1..Len(contacts) |-> wm] :
        wm \in {WorldManifold(Vec(0, 1), <<Vec(-1, 0), Vec(2, 0)>>),
                WorldManifold(Vec(0, 1), <<m_positions[2].c, m_positions[1].c>>)}}

InitJoint ==
    /\ \E island \in JointIslands :
          /\ bodies = island.bodies
          /\ contacts = [i \in 1..Len(island.layout) |-> island.layout[i].contact]
          /\ manifolds = [i \in 1..Len(island.layout) |-> island.layout[i].manifold]
          /\ m_positions = island.positions
          /\ m_velocities = island.velocities
          /\ joint = island.joint
    /\ InitSolver
    /\ pre = Snapshot

NextJoint ==
    \/ \E step \in JointStepParams : Initialize(step)
    \/ \E wms \in JointWorldManifolds : InitializeVelocityConstraints(wms)
    \/ JointInitVelocityConstraints
    \/ JointSolveVelocityConstraints
    \/ JointSolvePositionConstraints

SpecJoint == InitJoint /\ [][NextJoint]_vars

\* ------------------------------------------- the islands one solver is given

\* The most contacts of an island given to a solver whose arrays were made
\* with MaxContacts elements.
MaxIslandContacts == 5

\* An island of n contacts of the ground and the box.
IslandOf(n) == [i \in 1..n |-> GroundBox(CHOOSE m \in Materials : m.friction = One, 2)]
GrowLayouts == {IslandOf(n) : n \in 0..MaxIslandContacts}

\* The step over, the world gives the solver the contacts of another island:
\* def.contacts and def.count of the next Initialize.
NextIsland(layout) ==
    /\ pc = "initialized"
    /\ steps <= MaxSteps
    /\ contacts' = [i \in 1..Len(layout) |-> layout[i].contact]
    /\ manifolds' = [i \in 1..Len(layout) |-> layout[i].manifold]
    /\ pc' = "idle"
    /\ lastOp' = [op |-> "NextIsland", arg |-> Len(layout), blockSolve |-> g_blockSolve]
    /\ pre' = Snapshot
    /\ trace' = <<>>
    /\ ret' = NoRet
    /\ UNCHANGED <<solvers, scratch, bodies, joint, m_positions, m_velocities, m_step, m_count,
                   solverArrays, g_blockSolve, steps, passes>>

InitGrow ==
    /\ bodies = VelBodies
    /\ \E layout \in GrowLayouts :
          /\ contacts = [i \in 1..Len(layout) |-> layout[i].contact]
          /\ manifolds = [i \in 1..Len(layout) |-> layout[i].manifold]
    /\ m_positions = VelPositions
    /\ m_velocities = <<Velocity(VZero, Zero), Velocity(Vec(0, -2), Zero),
                        Velocity(Vec(-1, -3), Zero)>>
    /\ InitSolver
    /\ joint = NoJoint
    /\ pre = Snapshot

NextGrow ==
    \/ \E step \in StepParams : Initialize(step)
    \/ \E layout \in GrowLayouts : NextIsland(layout)

SpecGrow == InitGrow /\ [][NextGrow]_vars

\* --------------------------------- a wheel joint whose settings are changed

\* A body with the flag b2Body.SetAwake sets.
AwakeBody(body) ==
    [invMass |-> body.invMass, invI |-> body.invI, localCenter |-> body.localCenter,
     awake |-> TRUE]

\* m_bodyA.SetAwake(true); m_bodyB.SetAwake(true)
SetAwake(bd, j) == [bd EXCEPT ![j.m_bodyA].awake = TRUE, ![j.m_bodyB].awake = TRUE]

AllAwake == \A i \in DOMAIN bodies : bodies[i].awake

\* A call of one of the wheel joint's setters between two steps, r being
\* what the setter made of the joint.
WheelSetter(op, arg, r) ==
    /\ pc = "idle"
    /\ joint.type = "wheel"
    /\ joint' = r.joint
    /\ bodies' = IF r.wake THEN SetAwake(bodies, joint) ELSE bodies
    /\ lastOp' = [op |-> op, arg |-> arg, blockSolve |-> g_blockSolve,
                  awake |-> [i \in DOMAIN bodies |-> bodies[i].awake]]
    /\ pre' = Snapshot
    /\ trace' = <<>>
    /\ ret' = NoRet
    /\ UNCHANGED <<solvers, scratch, contacts, manifolds, m_positions, m_velocities, m_step, m_count,
                   solverArrays, g_blockSolve, pc, steps, passes>>

EnableMotor(flag) == WheelSetter("EnableMotor", flag, WheelEnableMotor(joint, flag))
EnableLimit(flag) == WheelSetter("EnableLimit", flag, WheelEnableLimit(joint, flag))
SetLimits(lower, upper) ==
    WheelSetter("SetLimits", <<lower, upper>>, WheelSetLimits(joint, lower, upper))

\* After a step the world lets the bodies of the island fall asleep.
Sleep ==
    /\ pc = "idle"
    /\ steps >= 1
    /\ AllAwake
    /\ bodies' = [i \in DOMAIN bodies |-> [bodies[i] EXCEPT !.awake = FALSE]]
    /\ lastOp' = [op |-> "Sleep", arg |-> <<>>, blockSolve |-> g_blockSolve]
    /\ pre' = Snapshot
    /\ trace' = <<>>
    /\ ret' = NoRet
    /\ UNCHANGED <<solvers, scratch, contacts, joint, manifolds, m_positions, m_velocities, m_step, m_count,
                   solverArrays, g_blockSolve, pc, steps, passes>>

\* The world steps an island of bodies that are awake.
StepAwake(step) == AllAwake /\ Initialize(step)

\* The wheels: body B is 1 below body A on the axis (0, 1) of body A, with a
\* spring; the motor, enabled or not, has a speed of 2 and a torque of 2.
SetterMotors ==
    {[enableMotor |-> flag, maxMotorTorque |-> R(2), motorSpeed |-> R(2)] :
        flag \in BOOLEAN}
SetterLimits == {<<(<<-3, 2>>), (<<-1, 2>>)>>, <<R(-2), Zero>>}
SetterStepParams == {step \in JointStepParams : step.dt # Zero}

SetterIslands ==
    {JointIsland(<<AwakeBody(TwoDynamic[1]), AwakeBody(TwoDynamic[2])>>,
                 VZero, Vec(0, -1), vB,
                 WheelJoint(1, 2, VZero, VZero, Vec(0, 1), lim, motor, R(2), One), <<>>) :
        vB \in JointVelocities, lim \in WheelLimits, motor \in SetterMotors}

InitWheel ==
    /\ \E island \in SetterIslands :
          /\ bodies = island.bodies
          /\ contacts = <<>>
          /\ manifolds = <<>>
          /\ m_positions = island.positions
          /\ m_velocities = island.velocities
          /\ joint = island.joint
    /\ InitSolver
    /\ pre = Snapshot

NextWheel ==
    \/ \E step \in SetterStepParams : StepAwake(step)
    \/ InitializeVelocityConstraints(<<>>)
    \/ JointInitVelocityConstraints
    \/ JointSolveVelocityConstraints
    \/ JointSolvePositionConstraints
    \/ \E flag \in BOOLEAN : EnableMotor(flag)
    \/ \E flag \in BOOLEAN : EnableLimit(flag)
    \/ \E lim \in SetterLimits : SetLimits(lim[1], lim[2])
    \/ Sleep

SpecWheel == InitWheel /\ [][NextWheel]_vars

\* ----------------------------------------- islands with a body without mass

\* A static or kinematic body has inverse mass and inverse inertia 0.  The
\* islands here put one on either side of a contact and of each joint, at
\* rest and moving, and every operation of the contact solver and of the
\* joints runs on them.
DynamicAndStatic == <<Body(One, One, VZero), Body(Zero, Zero, VZero)>>
\* The dynamic body with a fixed rotation.
FixedAndStatic == <<Body(One, Zero, VZero), Body(Zero, Zero, VZero)>>
FrameBodies == {StaticAndDynamic, DynamicAndStatic, FixedAndStatic}

FrameMaterial == [friction |-> One, restitution |-> Zero, tangentSpeed |-> One]

\* The box (A) on the ground (B): the box's bottom face is the reference face.
BoxGround ==
    [contact |-> Contact(2, 1, FrameMaterial.friction, FrameMaterial.restitution,
                         VelocityThreshold, FrameMaterial.tangentSpeed,
                         b2_linearSlop, b2_linearSlop),
     manifold |-> Manifold(e_faceA, Vec(0, -1), Vec(0, -1),
                           <<ManifoldPoint(Vec(-1, 0), Zero, Zero),
                             ManifoldPoint(Vec(1, 0), Zero, Zero)>>, 2)]

GroundVelocities == {Velocity(VZero, Zero), Velocity(Vec(1, 0), Zero)}

FrameVelocityIslands ==
    {[bodies |-> VelBodies, layout |-> layout, positions |-> VelPositions,
      velocities |-> <<g, v2, Velocity(Vec(-1, -3), Zero)>>, joint |-> NoJoint] :
        layout \in {<<GroundBox(FrameMaterial, 2), BoxBall(FrameMaterial)>>, <<BoxGround>>},
        g \in GroundVelocities, v2 \in BoxVelocities}

\* Discs that overlap, the static one the first or the second of the contact,
\* and the islands of faces whose box is pressed into the ground.
FramePositionIslands ==
    {[bodies |-> <<Body(Zero, Zero, VZero), Body(One, One, VZero),
                   Body(Half, Zero, Vec(1, 0))>>,
      layout |-> <<first>>,
      positions |-> <<Position(VZero, NoAngle),
                      Position(<<RAdd(One, s1), Zero>>, NoAngle),
                      Position(Vec(4, 0), Angle(1, Zero))>>,
      velocities |-> [i \in BodyIndex |-> Velocity(VZero, Zero)], joint |-> NoJoint] :
        first \in {DiscContact(1, 2, VZero, VZero), DiscContact(2, 1, VZero, VZero)},
        s1 \in {<<-1, 100>>, <<-1, 10>>, <<-1, 2>>}}
    \cup
    {[bodies |-> island.bodies, layout |-> island.layout, positions |-> island.positions,
      velocities |-> [i \in BodyIndex |-> Velocity(VZero, Zero)], joint |-> NoJoint] :
        island \in {f \in FaceIslands : f.bodies[2].invI = One
                                        /\ RLt(f.positions[2].c[2], One)}}

FrameJointIslands ==
    {JointIsland(bd, VZero, Vec(3, 4), vB, j, <<>>) :
        bd \in FrameBodies, vB \in JointVelocities,
        j \in {RopeJoint(1, 2, VZero, VZero, R(4)),
               DistanceJoint(1, 2, VZero, VZero, R(4), Zero, Zero),
               DistanceJoint(1, 2, VZero, VZero, R(4), R(2), One)}}
    \cup
    {JointIsland(bd, Vec(-2, 0), Vec(2, 1), vB,
                 PulleyJoint(1, 2, Vec(-2, 4), Vec(2, 4), VZero, VZero, R(4), lengthB,
                             One), <<>>) :
        bd \in FrameBodies, vB \in JointVelocities, lengthB \in {R(3), <<299, 100>>}}
    \cup
    {JointIsland(bd, VZero, cB, vB,
                 WheelJoint(1, 2, VZero, VZero, Vec(0, 1), lim, motor, R(2), One), <<>>) :
        bd \in FrameBodies, cB \in {Vec(0, -1), <<<<1, 100>>, R(-1)>>},
        vB \in JointVelocities, lim \in WheelLimits, motor \in WheelMotors}

FrameIslands == FrameVelocityIslands \cup FramePositionIslands \cup FrameJointIslands

\* The world manifold of the box on the ground: the normal points from the
\* box to the ground.
FrameWorldManifolds ==
    {wms \in [1..Len(contacts) -> GroundBoxWorldManifolds \cup BoxBallWorldManifolds
                                  \cup {WorldManifold(Vec(0, -1), <<Vec(-1, 0), Vec(2, 0)>>)}] :
        \A i \in 1..Len(contacts) :
            IF contacts[i].bodyB = 1
            THEN wms[i] = WorldManifold(Vec(0, -1), <<Vec(-1, 0), Vec(2, 0)>>)
            ELSE wms[i] \in WorldManifoldsOf(contacts[i])}

FrameStepParams ==
    {[dt |-> <<1, 4>>, inv_dt |-> R(4), dtRatio |-> One, warmStarting |-> TRUE]}

InitFrame ==
    /\ \E island \in FrameIslands :
          /\ bodies = island.bodies
          /\ contacts = [i \in 1..Len(island.layout) |-> island.layout[i].contact]
          /\ manifolds = [i \in 1..Len(island.layout) |-> island.layout[i].manifold]
          /\ m_positions = island.positions
          /\ m_velocities = island.velocities
          /\ joint = island.joint
    /\ InitSolver
    /\ pre = Snapshot

NextFrame ==
    \/ \E step \in FrameStepParams : Initialize(step)
    \/ \E wms \in FrameWorldManifolds : InitializeVelocityConstraints(wms)
    \/ WarmStart
    \/ SolveVelocityConstraints
    \/ StoreImpulses
    \/ SolvePositionConstraints
    \/ \E toiIndexA \in BodyIndex : \E toiIndexB \in BodyIndex \ {toiIndexA} :
          SolveTOIPositionConstraints(toiIndexA, toiIndexB)
    \/ JointInitVelocityConstraints
    \/ JointSolveVelocityConstraints
    \/ JointSolvePositionConstraints

SpecFrame == InitFrame /\ [][NextFrame]_vars

\* ----------------------------- two solvers and the static vectors they share

\* The operations once more, statement by statement, with every static
\* vector they write and read.  s holds the statics as an operation or a
\* statement finds them; every result carries the statics it leaves.

\* AddCrossScalarVec2(vB, wB, rB, b2Vec2.s_t0) and
\* AddCrossScalarVec2(vA, wA, rA, b2Vec2.s_t1)
VelocitiesAtArms(s, loc, rA, rB) ==
    [s EXCEPT !.t0 = AddCrossScalarVec2(loc.vB, loc.wB, rB),
              !.t1 = AddCrossScalarVec2(loc.vA, loc.wA, rA)]

\* WarmStart, the body of the loop over the points.
StaticWarmStartPoint(vc, loc, s, j) ==
    LET vcp == vc.points[j]
        Scaled(t) == [t EXCEPT !.t0 = VScale(vcp.normalImpulse, vc.normal),
                               !.t1 = VScale(vcp.tangentImpulse, vc.tangent)]
        Added(t) == [t EXCEPT !.wsP = VAdd(t.t0, t.t1)]
        Applied(t) ==
            [vc |-> vc, loc |-> ApplyImpulse(vc, loc, vcp.rA, vcp.rB, t.wsP), s |-> t]
    IN  Applied(Added(Scaled(s)))

\* The tangent constraint of point j with the impulse applied from P as the
\* statement before Scale(lambda, tangent, P) finds it.
StaticTangentPointStale(vc, loc, s, j) ==
    LET vcp == vc.points[j]
        Dv(t) == [t EXCEPT !.dv = VSub(t.t0, t.t1)]
        maxFriction == RMul(vc.friction, vcp.normalImpulse)
        NewImpulse(t) ==
            b2Clamp(RAdd(vcp.tangentImpulse,
                         RMul(vcp.tangentMass,
                              RNeg(RSub(Dot(t.dv, vc.tangent), vc.tangentSpeed)))),
                    RNeg(maxFriction), maxFriction)
        Applied(t, newImpulse) ==
            [vc |-> [vc EXCEPT !.points[j].tangentImpulse = newImpulse],
             loc |-> ApplyImpulse(vc, loc, vcp.rA, vcp.rB, t.P),
             s |-> [t EXCEPT !.P = VScale(RSub(newImpulse, vcp.tangentImpulse), vc.tangent)]]
        Solved(t) == Applied(t, NewImpulse(t))
    IN  Solved(Dv(VelocitiesAtArms(s, loc, vcp.rA, vcp.rB)))

\* SolveVelocityConstraints, the tangent constraint of point j.
StaticTangentPoint(vc, loc, s, j) ==
    LET vcp == vc.points[j]
        Dv(t) == [t EXCEPT !.dv = VSub(t.t0, t.t1)]
        maxFriction == RMul(vc.friction, vcp.normalImpulse)
        NewImpulse(t) ==
            b2Clamp(RAdd(vcp.tangentImpulse,
                         RMul(vcp.tangentMass,
                              RNeg(RSub(Dot(t.dv, vc.tangent), vc.tangentSpeed)))),
                    RNeg(maxFriction), maxFriction)
        Applied(t, newImpulse) ==
            [vc |-> [vc EXCEPT !.points[j].tangentImpulse = newImpulse],
             loc |-> ApplyImpulse(vc, loc, vcp.rA, vcp.rB, t.P),
             s |-> t]
        Scaled(t, newImpulse) ==
            Applied([t EXCEPT !.P = VScale(RSub(newImpulse, vcp.tangentImpulse),
                                           vc.tangent)], newImpulse)
        Solved(t) == Scaled(t, NewImpulse(t))
    IN  Solved(Dv(VelocitiesAtArms(s, loc, vcp.rA, vcp.rB)))

\* SolveVelocityConstraints, the normal constraint of point j on the
\* per-point path.
StaticNormalPoint(vc, loc, s, j) ==
    LET vcp == vc.points[j]
        Dv(t) == [t EXCEPT !.dv = VSub(t.t0, t.t1)]
        NewImpulse(t) ==
            RMax(RAdd(vcp.normalImpulse,
                      RMul(RNeg(vcp.normalMass),
                           RSub(Dot(t.dv, vc.normal), vcp.velocityBias))), Zero)
        Applied(t, newImpulse) ==
            [vc |-> [vc EXCEPT !.points[j].normalImpulse = newImpulse],
             loc |-> ApplyImpulse(vc, loc, vcp.rA, vcp.rB, t.P),
             s |-> t]
        Scaled(t, newImpulse) ==
            Applied([t EXCEPT !.P = VScale(RSub(newImpulse, vcp.normalImpulse),
                                           vc.normal)], newImpulse)
        Solved(t) == Scaled(t, NewImpulse(t))
    IN  Solved(Dv(VelocitiesAtArms(s, loc, vcp.rA, vcp.rB)))

\* The block solver up to its loop: a, dv1, dv2 and b.
StaticBlockB(vc, loc, s) ==
    LET cp1 == vc.points[1]
        cp2 == vc.points[2]
        A(t) == [t EXCEPT !.a = <<cp1.normalImpulse, cp2.normalImpulse>>]
        Dv1(t) == [t EXCEPT !.dv1 = VSub(t.t0, t.t1)]
        Dv2(t) == [t EXCEPT !.dv2 = VSub(t.t0, t.t1)]
        B(t) == [t EXCEPT !.b = <<RSub(Dot(t.dv1, vc.normal), cp1.velocityBias),
                                  RSub(Dot(t.dv2, vc.normal), cp2.velocityBias)>>]
        Ka(t) == [t EXCEPT !.t0 = MatMulVec2(vc.K, t.a)]
        Bp(t) == [t EXCEPT !.b = VSub(t.b, t.t0)]
    IN  Bp(Ka(B(Dv2(VelocitiesAtArms(Dv1(VelocitiesAtArms(A(s), loc, cp1.rA, cp1.rB)),
                                     loc, cp2.rA, cp2.rB)))))

\* The block of statements every case that passes its test runs, x being
\* written.
StaticBlockApply(vc, loc, s) ==
    LET D(t) == [t EXCEPT !.d = VSub(t.x, t.a)]
        P1(t) == [t EXCEPT !.P1 = VScale(t.d[1], vc.normal)]
        P2(t) == [t EXCEPT !.P2 = VScale(t.d[2], vc.normal)]
        P1P2(t) == [t EXCEPT !.P1P2 = VAdd(t.P1, t.P2)]
        Applied(t) ==
            [vc |-> [vc EXCEPT !.points[1].normalImpulse = t.x[1],
                               !.points[2].normalImpulse = t.x[2]],
             loc |-> [vA |-> VSubScaled(loc.vA, vc.invMassA, t.P1P2),
                      wA |-> RSub(loc.wA, RMul(vc.invIA, RAdd(Cross(vc.points[1].rA, t.P1),
                                                              Cross(vc.points[2].rA, t.P2)))),
                      vB |-> VAddScaled(loc.vB, vc.invMassB, t.P1P2),
                      wB |-> RAdd(loc.wB, RMul(vc.invIB, RAdd(Cross(vc.points[1].rB, t.P1),
                                                              Cross(vc.points[2].rB, t.P2))))],
             s |-> t]
    IN  Applied(P1P2(P2(P1(D(s)))))

\* The loop of the block solver: the four cases in turn, each writing x, and
\* the break that gives up.
StaticBlockCases(vc, loc, s) ==
    LET X1(t) == [t EXCEPT !.x = VNeg(MatMulVec2(vc.normalMass, t.b))]
        X2(t) == [t EXCEPT !.x = <<RMul(RNeg(vc.points[1].normalMass), t.b[1]), Zero>>]
        X3(t) == [t EXCEPT !.x = <<Zero, RMul(RNeg(vc.points[2].normalMass), t.b[2])>>]
        X4(t) == [t EXCEPT !.x = VZero]
        Case4(t) ==
            IF RGe(t.b[1], Zero) /\ RGe(t.b[2], Zero) THEN StaticBlockApply(vc, loc, t)
            ELSE [vc |-> vc, loc |-> loc, s |-> t]
        Case3(t) ==
            IF RGe(t.x[2], Zero) /\ RGe(RAdd(RMul(vc.K.ey[1], t.x[2]), t.b[1]), Zero)
            THEN StaticBlockApply(vc, loc, t)
            ELSE Case4(X4(t))
        Case2(t) ==
            IF RGe(t.x[1], Zero) /\ RGe(RAdd(RMul(vc.K.ex[2], t.x[1]), t.b[2]), Zero)
            THEN StaticBlockApply(vc, loc, t)
            ELSE Case3(X3(t))
        Case1(t) ==
            IF RGe(t.x[1], Zero) /\ RGe(t.x[2], Zero) THEN StaticBlockApply(vc, loc, t)
            ELSE Case2(X2(t))
    IN  Case1(X1(s))

StaticBlockSolve(vc, loc, s) == StaticBlockCases(vc, loc, StaticBlockB(vc, loc, s))

\* The loop over the points of a contact: Step(vc, loc, s, j) gives the
\* record [vc, loc, s] after point j.
RECURSIVE StaticForPoints(_, _, _, _, _, _)
StaticForPoints(Step(_, _, _, _), vc, loc, s, j, n) ==
    LET Rest(r) == StaticForPoints(Step, r.vc, r.loc, r.s, j + 1, n)
    IN  IF j > n THEN [vc |-> vc, loc |-> loc, s |-> s]
        ELSE Rest(Step(vc, loc, s, j))

\* One contact of SolveVelocityConstraints.  pointCount is read from the
\* constraint before the loops.
StaticVelocityContact(vc, loc, s, blockSolve) ==
    LET Normal(t) ==
            IF vc.pointCount = 1 \/ blockSolve = FALSE
            THEN StaticForPoints(StaticNormalPoint, t.vc, t.loc, t.s, 1, vc.pointCount)
            ELSE StaticBlockSolve(t.vc, t.loc, t.s)
    IN  Normal(StaticForPoints(StaticTangentPoint, vc, loc, s, 1, vc.pointCount))

StaticWarmStartContact(vc, loc, s, blockSolve) ==
    StaticForPoints(StaticWarmStartPoint, vc, loc, s, 1, vc.pointCount)

\* b2PositionSolverManifold.Initialize(pc, xfA, xfB, index) on the solver
\* manifold psm of the statics, xfA and xfB being the transforms of the
\* statics.
StaticPositionSolverManifold(s, pc0, j) ==
    LET PointA(t) == [t EXCEPT !.pointA = TransformMulVec2(t.xfA, pc0.localPoint)]
        PointB(t) == [t EXCEPT !.pointB = TransformMulVec2(t.xfB, pc0.localPoints[1])]
        Between(t) == [t EXCEPT !.psm.normal = VNormalize(VSub(t.pointB, t.pointA))]
        Mid(t) == [t EXCEPT !.psm.point = VMid(t.pointA, t.pointB)]
        Apart(t) == [t EXCEPT !.t0 = VSub(t.pointB, t.pointA)]
        NormalA(t) == [t EXCEPT !.psm.normal = RotMulVec2(t.xfA.q, pc0.localNormal)]
        PlaneA(t) == [t EXCEPT !.planePoint = TransformMulVec2(t.xfA, pc0.localPoint)]
        ClipB(t) == [t EXCEPT !.clipPoint = TransformMulVec2(t.xfB, pc0.localPoints[j])]
        NormalB(t) == [t EXCEPT !.psm.normal = RotMulVec2(t.xfB.q, pc0.localNormal)]
        PlaneB(t) == [t EXCEPT !.planePoint = TransformMulVec2(t.xfB, pc0.localPoint)]
        ClipA(t) == [t EXCEPT !.clipPoint = TransformMulVec2(t.xfA, pc0.localPoints[j])]
        Off(t) == [t EXCEPT !.t0 = VSub(t.clipPoint, t.planePoint)]
        Separation(t) ==
            [t EXCEPT !.psm.separation =
                RSub(RSub(Dot(t.t0, t.psm.normal), pc0.radiusA), pc0.radiusB)]
        Point(t) == [t EXCEPT !.psm.point = t.clipPoint]
        Negated(t) == [t EXCEPT !.psm.normal = VNeg(t.psm.normal)]
    IN  CASE pc0.type = e_circles -> Separation(Apart(Mid(Between(PointB(PointA(s))))))
          [] pc0.type = e_faceA -> Point(Separation(Off(ClipB(PlaneA(NormalA(s))))))
          [] pc0.type = e_faceB ->
                Negated(Point(Separation(Off(ClipA(PlaneB(NormalB(s)))))))

\* xfA.q.Set(aA); xfB.q.Set(aB); xfA.p = cA - Mul(xfA.q, localCenterA) and
\* the same for xfB, by way of b2Vec2.s_t0.
StaticTransforms(s, loc, localCenterA, localCenterB) ==
    LET Q(t) == [t EXCEPT !.xfA.q = Rot(loc.aA), !.xfB.q = Rot(loc.aB)]
        CentreA(t) == [t EXCEPT !.t0 = RotMulVec2(t.xfA.q, localCenterA)]
        PA(t) == [t EXCEPT !.xfA.p = VSub(loc.cA, t.t0)]
        CentreB(t) == [t EXCEPT !.t0 = RotMulVec2(t.xfB.q, localCenterB)]
        PB(t) == [t EXCEPT !.xfB.p = VSub(loc.cB, t.t0)]
    IN  PB(CentreB(PA(CentreA(Q(s)))))

\* SolvePositionConstraints, the body of the loop over the points: run holds
\* the positions of the two bodies, minSeparation and the statics.
StaticPositionPoint(pc0, run, j) ==
    LET m == FullMass(pc0)
        RA(t) == [t EXCEPT !.rA = VSub(t.psm.point, run.loc.cA)]
        RB(t) == [t EXCEPT !.rB = VSub(t.psm.point, run.loc.cB)]
        P(t) ==
            [t EXCEPT !.posP =
                VScale(PositionImpulse(
                           PositionCorrection(b2_baumgarte, t.psm.separation),
                           PositionK(m, Cross(t.rA, t.psm.normal),
                                     Cross(t.rB, t.psm.normal))),
                       t.psm.normal)]
        Applied(t) ==
            [loc |-> ApplyPositionImpulse(m, run.loc, t.rA, t.rB, t.posP),
             minSeparation |-> RMin(run.minSeparation, t.psm.separation),
             s |-> t]
    IN  Applied(P(RB(RA(StaticPositionSolverManifold(
            StaticTransforms(run.s, run.loc, pc0.localCenterA, pc0.localCenterB),
            pc0, j)))))

RECURSIVE StaticPositionContact(_, _, _)
StaticPositionContact(pc0, run, j) ==
    IF j > pc0.pointCount THEN run
    ELSE StaticPositionContact(pc0, StaticPositionPoint(pc0, run, j), j + 1)

\* InitializeVelocityConstraints, the body of the loop over the points; the
\* normal and the tangent of vc are set and the world manifold is in the
\* statics.
StaticInitVelocityPoint(vc, s, j, posA, posB, loc) ==
    LET rA == VSub(s.worldManifold.points[j], posA.c)
        rB == VSub(s.worldManifold.points[j], posB.c)
        Mass(rnA, rnB) == InverseOrZero(KEntry(vc, rnA, rnB, rnA, rnB))
        VRel(t) == [t EXCEPT !.t0 = VSub(t.t0, t.t1)]
        Written(t) ==
            [vc |-> [vc EXCEPT !.points[j] =
                        [vc.points[j] EXCEPT
                            !.rA = rA, !.rB = rB,
                            !.normalMass = Mass(Cross(rA, vc.normal), Cross(rB, vc.normal)),
                            !.tangentMass = Mass(Cross(rA, vc.tangent), Cross(rB, vc.tangent)),
                            !.velocityBias = RestitutionBias(vc, Dot(vc.normal, t.t0))]],
             s |-> t]
    IN  Written(VRel(VelocitiesAtArms(s, loc, rA, rB)))

RECURSIVE StaticInitVelocityPoints(_, _, _, _, _, _, _)
StaticInitVelocityPoints(vc, s, j, n, posA, posB, loc) ==
    LET Rest(r) == StaticInitVelocityPoints(r.vc, r.s, j + 1, n, posA, posB, loc)
    IN  IF j > n THEN [vc |-> vc, s |-> s]
        ELSE Rest(StaticInitVelocityPoint(vc, s, j, posA, posB, loc))

\* InitializeVelocityConstraints, the body of the loop over the contacts.
\* wm is what b2WorldManifold.Initialize writes to the world manifold of the
\* statics for the manifold of the contact and the two transforms: the
\* normal and a point for each point of the manifold.
StaticInitVelocityContact(vc, pc0, wm, posA, posB, loc, s, blockSolve) ==
    LET Q(t) == [t EXCEPT !.ixfA.q = Rot(posA.a), !.ixfB.q = Rot(posB.a)]
        CentreA(t) == [t EXCEPT !.t0 = RotMulVec2(t.ixfA.q, pc0.localCenterA)]
        PA(t) == [t EXCEPT !.ixfA.p = VSub(posA.c, t.t0)]
        CentreB(t) == [t EXCEPT !.t0 = RotMulVec2(t.ixfB.q, pc0.localCenterB)]
        PB(t) == [t EXCEPT !.ixfB.p = VSub(posB.c, t.t0)]
        World(t) ==
            [t EXCEPT !.worldManifold =
                [normal |-> wm.normal,
                 points |-> [j \in 1..b2_maxManifoldPoints |->
                                IF j <= vc.pointCount THEN wm.points[j]
                                ELSE t.worldManifold.points[j]]]]
        Points(t) ==
            StaticInitVelocityPoints(
                [vc EXCEPT !.normal = t.worldManifold.normal,
                           !.tangent = CrossVec2One(t.worldManifold.normal)],
                t, 1, vc.pointCount, posA, posB, loc)
        Block(r) == [vc |-> PrepareBlock(r.vc, blockSolve), s |-> r.s]
    IN  Block(Points(World(PB(CentreB(PA(CentreA(Q(s))))))))

\* A b2ContactSolver with the island it works on: def is what Initialize is
\* given (the island's bodies, contacts, step and the world manifolds its
\* contacts have), script the operations the island's step calls on it, at
\* the number of them done.  manifolds, positions and velocities are the
\* island's, which the solver writes.
NewSolver(def) ==
    [def |-> def, manifolds |-> def.manifolds, positions |-> def.positions,
     velocities |-> def.velocities,
     step |-> [warmStarting |-> FALSE, dtRatio |-> Zero], count |-> 0,
     vcs |-> [i \in 1..MaxContacts |-> NewContactVelocityConstraint],
     pcs |-> [i \in 1..MaxContacts |-> NewContactPositionConstraint],
     minSeparation |-> Zero, at |-> 0]

\* Initialize(def) of a solver: it uses no static.
SolverInitialize(inst) ==
    LET d == inst.def
        n == Len(d.contacts)
        vcs == Grown(inst.vcs, n, NewContactVelocityConstraint)
        pcs == Grown(inst.pcs, n, NewContactPositionConstraint)
    IN  [inst EXCEPT
            !.step = d.step,
            !.count = n,
            !.vcs = [i \in DOMAIN vcs |->
                        IF i <= n
                        THEN InitializeVC(vcs[i], i, d.contacts[i],
                                          d.bodies[d.contacts[i].bodyA],
                                          d.bodies[d.contacts[i].bodyB],
                                          inst.manifolds[i], d.step)
                        ELSE vcs[i]],
            !.pcs = [i \in DOMAIN pcs |->
                        IF i <= n
                        THEN InitializePC(pcs[i], d.contacts[i],
                                          d.bodies[d.contacts[i].bodyA],
                                          d.bodies[d.contacts[i].bodyB],
                                          inst.manifolds[i])
                        ELSE pcs[i]]]

\* The loop over the contacts of InitializeVelocityConstraints, from contact i.
RECURSIVE SolverInitVelocityFrom(_, _, _)
SolverInitVelocityFrom(inst, s, i) ==
    LET Rest(r) == SolverInitVelocityFrom([inst EXCEPT !.vcs[i] = r.vc], r.s, i + 1)
    IN  IF i > inst.count THEN [inst |-> inst, s |-> s]
        ELSE Rest(StaticInitVelocityContact(inst.vcs[i], inst.pcs[i], inst.def.wms[i],
                      inst.positions[inst.vcs[i].indexA],
                      inst.positions[inst.vcs[i].indexB],
                      LocalOf(inst.velocities, inst.vcs[i]), s, g_blockSolve))

\* The loops over the contacts of WarmStart and SolveVelocityConstraints,
\* from contact i: LoopBody(vc, loc, s, blockSolve) is the loop body.
RECURSIVE SolverVelocityFrom(_, _, _, _)
SolverVelocityFrom(LoopBody(_, _, _, _), inst, s, i) ==
    LET Rest(r) ==
            SolverVelocityFrom(LoopBody,
                [inst EXCEPT !.vcs[i] = r.vc,
                             !.velocities = WriteVelocities(inst.velocities,
                                                            inst.vcs[i], r.loc)],
                r.s, i + 1)
    IN  IF i > inst.count THEN [inst |-> inst, s |-> s]
        ELSE Rest(LoopBody(inst.vcs[i], LocalOf(inst.velocities, inst.vcs[i]), s,
                           g_blockSolve))

\* The loop over the contacts of SolvePositionConstraints, from contact i.
RECURSIVE SolverPositionFrom(_, _, _)
SolverPositionFrom(inst, s, i) ==
    LET Rest(r) ==
            SolverPositionFrom(
                [inst EXCEPT !.positions = WriteBack(inst.positions, inst.pcs[i], r.loc),
                             !.minSeparation = r.minSeparation],
                r.s, i + 1)
    IN  IF i > inst.count THEN [inst |-> inst, s |-> s]
        ELSE Rest(StaticPositionContact(inst.pcs[i],
                      [loc |-> PosLocal(inst.positions[inst.pcs[i].indexA],
                                        inst.positions[inst.pcs[i].indexB]),
                       minSeparation |-> inst.minSeparation, s |-> s], 1))

\* StoreImpulses of a solver: it uses no static.
SolverStoreImpulses(inst) ==
    [inst EXCEPT !.manifolds =
        [i \in DOMAIN inst.manifolds |->
            IF i <= inst.count
            THEN StoreContactImpulses(inst.manifolds[inst.vcs[i].contactIndex], inst.vcs[i])
            ELSE inst.manifolds[i]]]

\* One whole operation of a solver that finds the statics as s.
Operate(op, inst, s) ==
    CASE op = "Initialize" -> [inst |-> SolverInitialize(inst), s |-> s]
      [] op = "InitializeVelocityConstraints" -> SolverInitVelocityFrom(inst, s, 1)
      [] op = "WarmStart" -> SolverVelocityFrom(StaticWarmStartContact, inst, s, 1)
      [] op = "SolveVelocityConstraints" ->
            SolverVelocityFrom(StaticVelocityContact, inst, s, 1)
      [] op = "StoreImpulses" -> [inst |-> SolverStoreImpulses(inst), s |-> s]
      [] op = "SolvePositionConstraints" ->
            SolverPositionFrom([inst EXCEPT !.minSeparation = Zero], s, 1)

\* The next operation of the solver's island, and the solver with it done,
\* r being what the operation left.
NextOp(inst) ==
    IF inst.at < Len(inst.def.script) THEN inst.def.script[inst.at + 1] ELSE "none"
Advanced(inst, r) == [inst |-> [r.inst EXCEPT !.at = inst.at + 1], s |-> r.s]
Advance(inst, s) == Advanced(inst, Operate(NextOp(inst), inst, s))

\* The solver after the first n operations of its island with no other
\* solver at work: the statics are as the classes make them, then as its own
\* operations leave them.
RECURSIVE RunAlone(_, _)
RunAlone(def, n) ==
    IF n = 0 THEN [inst |-> NewSolver(def), s |-> NewScratch]
    ELSE LET Then(r) == Advance(r.inst, r.s) IN Then(RunAlone(def, n - 1))

SolverIsNum(inst) ==
    /\ VelocitiesAreNum(inst.velocities)
    /\ PositionsAreNum(inst.positions)
    /\ IsNum(inst.minSeparation)
    /\ \A i \in 1..inst.count : VCIsNum(inst.vcs[i])

\* The islands of the two solvers.  The manifolds hold the impulses an
\* earlier step stored, so that the warm start applies some.
StoredGroundBox(m) ==
    [contact |-> GroundBox(m, 2).contact,
     manifold |-> Manifold(e_faceA, Vec(0, 1), Vec(0, 0),
                           <<ManifoldPoint(Vec(-1, -1), One, Zero),
                             ManifoldPoint(Vec(1, -1), One, R(-1))>>, 2)]
StoredBoxBall(m) ==
    [contact |-> BoxBall(m).contact,
     manifold |-> Manifold(e_faceA, Vec(0, 1), Vec(0, 1),
                           <<ManifoldPoint(Vec(0, 0), One, Zero), NoPoint>>, 1)]

VelocityScript ==
    <<"Initialize", "InitializeVelocityConstraints", "WarmStart",
      "SolveVelocityConstraints", "SolveVelocityConstraints", "StoreImpulses">>
PositionScript ==
    <<"Initialize", "SolvePositionConstraints", "SolvePositionConstraints">>
StepScript ==
    <<"Initialize", "InitializeVelocityConstraints", "WarmStart",
      "SolveVelocityConstraints", "StoreImpulses", "SolvePositionConstraints">>

Island(bd, layout, pos, vel, step, wms, script) ==
    [bodies |-> bd,
     contacts |-> [i \in 1..Len(layout) |-> layout[i].contact],
     manifolds |-> [i \in 1..Len(layout) |-> layout[i].manifold],
     positions |-> pos, velocities |-> vel, step |-> step, wms |-> wms,
     script |-> script]

\* The ground, the box and the ball of velocity solving.
VelocityIslands ==
    {Island(VelBodies, <<StoredGroundBox(m), StoredBoxBall(m)>>, VelPositions,
            <<Velocity(VZero, Zero), v2, Velocity(Vec(-1, -3), Zero)>>,
            [warmStarting |-> TRUE, dtRatio |-> One],
            <<WorldManifold(Vec(0, 1), <<Vec(-1, 0), Vec(1, 0)>>),
              WorldManifold(Vec(0, 1), <<Vec(0, 2), Vec(0, 2)>>)>>,
            VelocityScript) :
        m \in Materials, v2 \in {Velocity(Vec(1, -1), One)}}

\* Two discs of radius 2 that overlap by more than a pass corrects, the
\* first static.
WideDiscs ==
    [contact |-> Contact(1, 2, Zero, Zero, VelocityThreshold, Zero, R(2), R(2)),
     manifold |-> Manifold(e_circles, VZero, VZero,
                           <<ManifoldPoint(VZero, Zero, Zero), NoPoint>>, 1)]
OverlapIslands ==
    {Island(<<Body(Zero, Zero, VZero), Body(One, One, VZero)>>,
            <<WideDiscs>>,
            <<Position(VZero, NoAngle), Position(VScale(RAdd(R(4), sep), u), NoAngle)>>,
            <<Velocity(VZero, Zero), Velocity(VZero, Zero)>>,
            [warmStarting |-> TRUE, dtRatio |-> One], <<>>, PositionScript) :
        sep \in {<<-3, 2>>}, u \in Directions}

\* The ground, a box that does not turn and the ball on it, through a whole
\* step.
StepIslands ==
    {Island(<<Body(Zero, Zero, VZero), Body(One, Zero, VZero),
              Body(Half, Zero, Vec(1, 0))>>,
            <<top, GroundBoxFace(2)>>,
            <<Position(VZero, NoAngle),
              Position(<<Zero, RAdd(One, <<1, 100>>)>>, NoAngle),
              Position(<<Zero, <<5, 2>>>>, Angle(1, Zero))>>,
            <<Velocity(VZero, Zero), Velocity(v2, Zero),
              Velocity(Vec(0, -1), Zero)>>,
            [warmStarting |-> TRUE, dtRatio |-> One],
            <<WorldManifold(IF top.contact.bodyA = 2 THEN Vec(0, 1) ELSE Vec(0, -1),
                            <<Vec(1, 2), Vec(1, 2)>>),
              WorldManifold(Vec(0, 1), <<Vec(-1, 0), Vec(1, 0)>>)>>,
            StepScript) :
        top \in {BoxBallFace, BallBoxFace}, v2 \in {Vec(1, -2), Vec(0, -3)}}

TwoIslands == VelocityIslands \cup OverlapIslands \cup StepIslands

\* Two solvers, each made for an island of its own: no body, contact,
\* manifold, position or velocity belongs to both.
InitTwo ==
    /\ bodies = <<>>
    /\ contacts = <<>>
    /\ manifolds = <<>>
    /\ m_positions = <<>>
    /\ m_velocities = <<>>
    /\ m_step = [warmStarting |-> FALSE, dtRatio |-> Zero]
    /\ m_count = 0
    /\ m_velocityConstraints = [i \in 1..MaxContacts |-> NewContactVelocityConstraint]
    /\ m_positionConstraints = [i \in 1..MaxContacts |-> NewContactPositionConstraint]
    /\ g_blockSolve = TRUE
    /\ pc = "idle"
    /\ steps = 0
    /\ passes = 0
    /\ lastOp = [op |-> "none", arg |-> 0, blockSolve |-> TRUE, entered |-> NewScratch]
    /\ trace = <<>>
    /\ ret = NoRet
    /\ joint = NoJoint
    /\ pre = Snapshot
    /\ \E d1 \in TwoIslands, d2 \in TwoIslands : solvers = <<NewSolver(d1), NewSolver(d2)>>
    /\ scratch = NewScratch

\* Solver k has done the next operation of its island, whole, on the statics
\* as the operation before it, of either solver, left them: r is what the
\* operation left.
OperationOf(k, r) ==
    /\ SolverIsNum(r.inst)
    /\ solvers' = [solvers EXCEPT ![k] = r.inst]
    /\ scratch' = r.s
    /\ lastOp' = [op |-> NextOp(solvers[k]), arg |-> k, blockSolve |-> g_blockSolve,
                  entered |-> scratch]
    /\ UNCHANGED <<bodies, contacts, joint, manifolds, m_positions, m_velocities, m_step,
                   m_count, solverArrays, g_blockSolve, pc, steps, passes, pre, trace, ret>>

InitializeOf(k) ==
    /\ NextOp(solvers[k]) = "Initialize"
    /\ OperationOf(k, Advanced(solvers[k],
                               [inst |-> SolverInitialize(solvers[k]), s |-> scratch]))

InitializeVelocityConstraintsOf(k) ==
    /\ NextOp(solvers[k]) = "InitializeVelocityConstraints"
    /\ OperationOf(k, Advanced(solvers[k], SolverInitVelocityFrom(solvers[k], scratch, 1)))

WarmStartOf(k) ==
    /\ NextOp(solvers[k]) = "WarmStart"
    /\ OperationOf(k, Advanced(solvers[k],
                               SolverVelocityFrom(StaticWarmStartContact, solvers[k],
                                                  scratch, 1)))

SolveVelocityConstraintsOf(k) ==
    /\ NextOp(solvers[k]) = "SolveVelocityConstraints"
    /\ OperationOf(k, Advanced(solvers[k],
                               SolverVelocityFrom(StaticVelocityContact, solvers[k],
                                                  scratch, 1)))

StoreImpulsesOf(k) ==
    /\ NextOp(solvers[k]) = "StoreImpulses"
    /\ OperationOf(k, Advanced(solvers[k],
                               [inst |-> SolverStoreImpulses(solvers[k]), s |-> scratch]))

SolvePositionConstraintsOf(k) ==
    /\ NextOp(solvers[k]) = "SolvePositionConstraints"
    /\ OperationOf(k, Advanced(solvers[k],
                               SolverPositionFrom([solvers[k] EXCEPT !.minSeparation = Zero],
                                                  scratch, 1)))

NextTwo ==
    \/ \E k \in 1..2 : InitializeOf(k)
    \/ \E k \in 1..2 : InitializeVelocityConstraintsOf(k)
    \/ \E k \in 1..2 : WarmStartOf(k)
    \/ \E k \in 1..2 : SolveVelocityConstraintsOf(k)
    \/ \E k \in 1..2 : StoreImpulsesOf(k)
    \/ \E k \in 1..2 : SolvePositionConstraintsOf(k)

SpecTwo == InitTwo /\ [][NextTwo]_vars

\* ------------------------------------------------------------- the properties

\* The points the solver solves: point j of contact i.
SolvedPoints ==
    {ij \in (1..m_count) \X (1..b2_maxManifoldPoints) :
        ij[2] <= m_velocityConstraints[ij[1]].pointCount}

AfterVelocityPass == lastOp.op = "SolveVelocityConstraints"

\* The contacts of the last pass that the block solver solved.
BlockSolved == {i \in DOMAIN trace : trace[i].case \in 1..5}

\* |tangentImpulse| <= friction * normalImpulse
WithinFriction(friction, tangentImpulse, normalImpulse) ==
    RLe(RAbs(tangentImpulse), RMul(friction, normalImpulse))

\* C1 as stated: after a SolveVelocityConstraints pass every solved point
\* has |tangentImpulse| <= friction * normalImpulse, normalImpulse being the
\* point's accumulated normal impulse at the end of the pass.
C1_FrictionBoundAtEndOfPass ==
    AfterVelocityPass =>
        \A ij \in SolvedPoints :
            LET vc == m_velocityConstraints[ij[1]]
            IN  WithinFriction(vc.friction, vc.points[ij[2]].tangentImpulse,
                               vc.points[ij[2]].normalImpulse)

\* C1: after a SolveVelocityConstraints pass every solved point has
\* |tangentImpulse| <= friction * normalImpulse for the normal impulse the
\* point had accumulated when the pass began, which is the one its friction
\* step read; the normal step that follows may lower it.
C1_FrictionBoundAtFrictionStep ==
    AfterVelocityPass =>
        \A ij \in SolvedPoints :
            LET vc == m_velocityConstraints[ij[1]]
            IN  WithinFriction(vc.friction, vc.points[ij[2]].tangentImpulse,
                               pre.vcs[ij[1]].points[ij[2]].normalImpulse)

\* A pass has clamped a friction impulse to a limit that is not 0, and the
\* normal step after it has lowered the normal impulse.
C1_ClampedThenLowered ==
    /\ AfterVelocityPass
    /\ \E ij \in SolvedPoints :
          LET vc == m_velocityConstraints[ij[1]]
              before == pre.vcs[ij[1]].points[ij[2]].normalImpulse
          IN  /\ RGt(RAbs(vc.points[ij[2]].tangentImpulse), Zero)
              /\ RAbs(vc.points[ij[2]].tangentImpulse) = RMul(vc.friction, before)
              /\ RLt(vc.points[ij[2]].normalImpulse, before)

AfterStoreImpulses == lastOp.op = "StoreImpulses"

\* The points of the manifolds of the solver's contacts.
ManifoldPoints ==
    {ij \in (1..m_count) \X (1..b2_maxManifoldPoints) :
        ij[2] <= manifolds[ij[1]].pointCount}

\* C4 as stated: an Initialize with dtRatio = 1 and warm starting, run on
\* the same contacts after StoreImpulses, starts every point of every
\* contact at the normal and tangent impulse the solver held for it when
\* StoreImpulses ran.
C4_StoredImpulsesRoundTrip ==
    (/\ lastOp.op = "Initialize"
     /\ lastOp.arg = [warmStarting |-> TRUE, dtRatio |-> One]
     /\ steps >= 2) =>
        \A ij \in ManifoldPoints :
            LET now == m_velocityConstraints[ij[1]].points[ij[2]]
                held == pre.vcs[ij[1]].points[ij[2]]
            IN  /\ now.normalImpulse = held.normalImpulse
                /\ now.tangentImpulse = held.tangentImpulse

\* C5 as stated: after StoreImpulses every manifold point of every contact
\* of the solver holds the solver's accumulated normal and tangent impulse
\* of that point, the second point of a contact reduced to one point too.
C5_EveryManifoldPointStored ==
    AfterStoreImpulses =>
        \A ij \in ManifoldPoints :
            LET stored == manifolds[ij[1]].points[ij[2]]
                held == m_velocityConstraints[ij[1]].points[ij[2]]
            IN  /\ stored.normalImpulse = held.normalImpulse
                /\ stored.tangentImpulse = held.tangentImpulse

\* C6: the block solver applies the first of the cases 1 (both points
\* active), 2 (point 1 alone), 3 (point 2 alone), 4 (neither) whose test
\* passes: the tests of the cases before the applied one fail, the applied x
\* is what the two points accumulate, x1 >= 0 and x2 >= 0, the impulse of an
\* inactive point is exactly 0 and the normal velocity computed for an
\* inactive point is >= 0.
C6_FirstQualifyingCase ==
    AfterVelocityPass =>
        \A i \in BlockSolved :
            LET t == trace[i]
                vc == pre.vcs[i]
                now == m_velocityConstraints[i]
            IN  t.case \in 1..4 =>
                /\ \A k \in 1..(t.case - 1) : ~BlockCase(vc, t.b, k).ok
                /\ t.x = BlockX(vc, t.b, t.case)
                /\ now.points[1].normalImpulse = t.x[1]
                /\ now.points[2].normalImpulse = t.x[2]
                /\ RGe(t.x[1], Zero) /\ RGe(t.x[2], Zero)
                /\ t.case \in {3, 4} => t.x[1] = Zero /\ RGe(t.vn[1], Zero)
                /\ t.case \in {2, 4} => t.x[2] = Zero /\ RGe(t.vn[2], Zero)

\* The block solver has applied case 3 to a contact holding an impulse at
\* point 1, after case 1 failed and case 2 passed its impulse test but not
\* its velocity test.
C6_ThirdCaseAfterTwoFailed ==
    /\ AfterVelocityPass
    /\ \E i \in BlockSolved :
          /\ trace[i].case = 3
          /\ RGt(trace[i].a[1], Zero)
          /\ RGt(trace[i].x[2], Zero)
          /\ RGe(BlockX(pre.vcs[i], trace[i].b, 2)[1], Zero)
          /\ RLt(BlockCase(pre.vcs[i], trace[i].b, 2).vn[2], Zero)

AfterInitializeVelocityConstraints == lastOp.op = "InitializeVelocityConstraints"

\* k11, k12, k22 of the two points of a velocity constraint.
BlockK(vc) ==
    LET rn1A == Cross(vc.points[1].rA, vc.normal)
        rn1B == Cross(vc.points[1].rB, vc.normal)
        rn2A == Cross(vc.points[2].rA, vc.normal)
        rn2B == Cross(vc.points[2].rB, vc.normal)
    IN  [k11 |-> KEntry(vc, rn1A, rn1B, rn1A, rn1B),
         k22 |-> KEntry(vc, rn2A, rn2B, rn2A, rn2B),
         k12 |-> KEntry(vc, rn1A, rn1B, rn2A, rn2B)]

\* k11 * k11 < 1000 * (k11 * k22 - k12 * k12)
PassesConditionTest(k) ==
    RLt(RMul(k.k11, k.k11),
        RMul(R(1000), RSub(RMul(k.k11, k.k22), RMul(k.k12, k.k12))))

\* C8: when InitializeVelocityConstraints runs with block solving enabled,
\* a contact of 2 points gets K = (k11 k12; k12 k22) and its inverse only
\* when k11 * k11 < 1000 * (k11 * k22 - k12 * k12); otherwise its pointCount
\* becomes 1 and K is not built.  A velocity constraint that leaves with
\* pointCount = 2 holds a K that passes the test.
C8_KBuiltOnlyWhenWellConditioned ==
    (AfterInitializeVelocityConstraints /\ lastOp.blockSolve) =>
        \A i \in 1..m_count :
            pre.vcs[i].pointCount = 2 =>
                LET vc == m_velocityConstraints[i]
                    k == BlockK(vc)
                IN  IF PassesConditionTest(k)
                    THEN /\ vc.pointCount = 2
                         /\ vc.K = Mat(<<k.k11, k.k12>>, <<k.k12, k.k22>>)
                         /\ vc.normalMass = MatGetInverse(vc.K)
                         /\ PassesConditionTest([k11 |-> vc.K.ex[1], k12 |-> vc.K.ex[2],
                                                 k22 |-> vc.K.ey[2]])
                    ELSE /\ vc.pointCount = 1
                         /\ vc.K = pre.vcs[i].K
                         /\ vc.normalMass = pre.vcs[i].normalMass

\* With block solving enabled InitializeVelocityConstraints has reduced a
\* contact of 2 points whose K fails the test to 1 point.
C8_ReducedToOnePoint ==
    /\ AfterInitializeVelocityConstraints /\ lastOp.blockSolve
    /\ \E i \in 1..m_count :
          /\ pre.vcs[i].pointCount = 2
          /\ m_velocityConstraints[i].pointCount = 1
          /\ RGt(BlockK(m_velocityConstraints[i]).k11, Zero)
          /\ ~PassesConditionTest(BlockK(m_velocityConstraints[i]))

AfterPositionPass == lastOp.op = "SolvePositionConstraints"
AfterTOIPositionPass == lastOp.op = "SolveTOIPositionConstraints"

\* -3 * linearSlop after SolvePositionConstraints, -1.5 * linearSlop after
\* SolveTOIPositionConstraints
Tolerance == IF AfterTOIPositionPass THEN <<-3, 400>> ELSE <<-3, 200>>

\* The separation of point j of contact i at the positions of the state.
SeparationNow(i, j) ==
    LET pc0 == m_positionConstraints[i]
        posA == m_positions[pc0.indexA]
        posB == m_positions[pc0.indexB]
    IN  PositionSolverManifold(pc0, BodyTransform(posA.c, posA.a, pc0.localCenterA),
                               BodyTransform(posB.c, posB.a, pc0.localCenterB),
                               j).separation

PositionPoints ==
    {ij \in (1..m_count) \X (1..b2_maxManifoldPoints) :
        ij[2] <= m_positionConstraints[ij[1]].pointCount}

\* C3 as stated: after a position pass the separation of every contact
\* point at the resulting positions is >= -3 * linearSlop, and >=
\* -1.5 * linearSlop after the TOI pass.  (A separation the model's numbers
\* cannot represent is passed over.)
C3_SeparatedAfterPass ==
    (AfterPositionPass \/ AfterTOIPositionPass) =>
        \A ij \in PositionPoints :
            IsNum(SeparationNow(ij[1], ij[2])) =>
                RGe(SeparationNow(ij[1], ij[2]), Tolerance)

\* C3: a position pass that returns true has measured no separation below
\* -3 * linearSlop (-1.5 * linearSlop for the TOI pass), each measured at the
\* positions current when the pass reached the point; a pass that returns
\* false is followed by further passes, and the separations at the resulting
\* positions are bounded by neither.
C3_TrueOnlyIfMeasuredSeparated ==
    ((AfterPositionPass \/ AfterTOIPositionPass) /\ ret.value) =>
        \A k \in DOMAIN ret.log : RGe(ret.log[k].separation, Tolerance)

\* A pass over two contacts has returned true, the first point it measured
\* overlapping more than the last.
C3_TrueAfterDeeperFirst ==
    /\ AfterPositionPass \/ AfterTOIPositionPass
    /\ ret.value
    /\ Len(ret.log) >= 2
    /\ RLt(ret.log[1].separation, ret.log[Len(ret.log)].separation)
    /\ RLt(ret.log[1].separation, Zero)

\* C9: SolvePositionConstraints returns true exactly when every separation
\* it measured is >= -3 * linearSlop, SolveTOIPositionConstraints exactly
\* when every one is >= -1.5 * linearSlop; both return true when the island
\* has no contacts.
C9_ReturnsWhetherSeparated ==
    (AfterPositionPass \/ AfterTOIPositionPass) =>
        /\ ret.value = (\A k \in DOMAIN ret.log : RGe(ret.log[k].separation, Tolerance))
        /\ Len(ret.log) = Cardinality(PositionPoints)
        /\ m_count = 0 => ret.value

\* The TOI pass has returned false over separations that are all within
\* the tolerance of the other pass.
C9_FalseBetweenTolerances ==
    /\ AfterTOIPositionPass
    /\ ~ret.value
    /\ Len(ret.log) >= 2
    /\ \A k \in DOMAIN ret.log : RGe(ret.log[k].separation, <<-3, 200>>)

\* C10: SolveTOIPositionConstraints(toiIndexA, toiIndexB) leaves the centre
\* and the angle of every body of the island other than toiIndexA and
\* toiIndexB as they were.
C10_OtherBodiesHeld ==
    AfterTOIPositionPass =>
        \A body \in BodyIndex \ {lastOp.arg[1], lastOp.arg[2]} :
            m_positions[body] = pre.positions[body]

\* The TOI pass has moved a body of the pair through a contact with a
\* movable body outside the pair that overlaps it beyond the slop.
C10_ContactWithOutsider ==
    /\ AfterTOIPositionPass
    /\ \E i \in 1..m_count :
          LET pc0 == m_positionConstraints[i]
              pair == {lastOp.arg[1], lastOp.arg[2]}
          IN  \E inside \in {pc0.indexA, pc0.indexB} \cap pair :
              \E outside \in {pc0.indexA, pc0.indexB} \ pair :
                 /\ RGt(bodies[outside].invMass, Zero)
                 /\ m_positions[inside] # pre.positions[inside]

\* The contacts of the last pass on which the block solver gave up.
GaveUp == {i \in DOMAIN trace : trace[i].case = 5}

\* C7: when none of the four cases passes its test the accumulated normal
\* impulses of the two points stay as they were before the pass, the
\* velocities of the two bodies stay as the tangent constraints left them,
\* and the pass solves the contacts after this one.
C7_GiveUpChangesNothing ==
    AfterVelocityPass =>
        /\ Len(trace) = m_count
        /\ \A i \in GaveUp :
              /\ \A j \in 1..2 :
                    m_velocityConstraints[i].points[j].normalImpulse =
                        pre.vcs[i].points[j].normalImpulse
              /\ trace[i].loc = trace[i].tangentLoc
              /\ \A k \in 1..4 : ~BlockCase(pre.vcs[i], trace[i].b, k).ok

\* The block solver has given up on a contact whose points hold normal
\* impulses that are not 0, and the pass has solved the contact after it.
C7_GaveUpWithImpulses ==
    /\ AfterVelocityPass
    /\ \E i \in GaveUp :
          /\ RGt(pre.vcs[i].points[1].normalImpulse, Zero)
          /\ RGt(pre.vcs[i].points[2].normalImpulse, Zero)
          /\ i < m_count
          /\ m_velocities[3] # pre.velocities[3]

\* ------------------------------------------------ the properties of joints

\* The velocities and positions of the joint's bodies before the last
\* operation.
PreJointLocal == Local(pre.velocities[joint.m_bodyA], pre.velocities[joint.m_bodyB])
PreJointPosLocal == PosLocal(pre.positions[joint.m_bodyA], pre.positions[joint.m_bodyB])

AfterJointInit == lastOp.op = "JointInitVelocityConstraints"
AfterJointVelocity == lastOp.op = "JointSolveVelocityConstraints"
AfterJointPosition == lastOp.op = "JointSolvePositionConstraints"

\* C11: the accumulated impulse m_impulse of a rope joint is at most 0 in
\* every reachable state: the rope never pushes the bodies apart.
C11_RopeNeverPushes ==
    joint.type = "rope" => RLe(joint.m_impulse, Zero)

\* A velocity iteration of a rope joint that had pulled (m_impulse < 0) has
\* computed an impulse that would take the accumulated impulse above 0, and
\* the clamp has left it at 0.
C11_ClampedPush ==
    /\ joint.type = "rope"
    /\ AfterJointVelocity
    /\ RLt(pre.joint.m_impulse, Zero)
    /\ RGt(RAdd(pre.joint.m_impulse,
                RNeg(RMul(pre.joint.m_mass, RopeCdot(pre.joint, PreJointLocal, m_step)))),
           Zero)
    /\ joint.m_impulse = Zero

\* The effective masses of the joint with the denominators they come from,
\* read from the joint as InitVelocityConstraints left it.
EffectiveMasses ==
    CASE joint.type = "rope" ->
           {[mass |-> joint.m_mass,
             denominator |-> AxisInvMass(joint, Cross(joint.m_rA, joint.m_u),
                                         Cross(joint.m_rB, joint.m_u))]}
      [] joint.type = "distance" ->
           {[mass |-> joint.m_mass,
             denominator |-> RAdd(AxisInvMass(joint, Cross(joint.m_rA, joint.m_u),
                                              Cross(joint.m_rB, joint.m_u)),
                                  joint.m_gamma)]}
      [] joint.type = "pulley" ->
           {[mass |-> joint.m_mass,
             denominator |-> PulleyInvMass(joint, Cross(joint.m_rA, joint.m_uA),
                                           Cross(joint.m_rB, joint.m_uB))]}
      [] joint.type = "wheel" ->
           {[mass |-> joint.m_mass,
             denominator |-> WheelInvMass(joint, joint.m_sAy, joint.m_sBy)],
            [mass |-> joint.m_axialMass,
             denominator |-> WheelInvMass(joint, joint.m_sAx, joint.m_sBx)],
            [mass |-> joint.m_springMass,
             denominator |-> RAdd(WheelInvMass(joint, joint.m_sAx, joint.m_sBx),
                                  joint.m_gamma)],
            [mass |-> joint.m_motorMass,
             denominator |-> RAdd(joint.m_invIA, joint.m_invIB)]}

\* kNormal and kTangent of a point of a velocity constraint.
PointDenominators(vc, vcp) ==
    [normal |-> KEntry(vc, Cross(vcp.rA, vc.normal), Cross(vcp.rB, vc.normal),
                       Cross(vcp.rA, vc.normal), Cross(vcp.rB, vc.normal)),
     tangent |-> KEntry(vc, Cross(vcp.rA, vc.tangent), Cross(vcp.rB, vc.tangent),
                        Cross(vcp.rA, vc.tangent), Cross(vcp.rB, vc.tangent))]

\* C12: every effective mass is at least 0, and exactly 0 when its
\* denominator is at most 0: normalMass and tangentMass of every contact
\* point after the contact solver's InitializeVelocityConstraints, and the
\* masses of the joint after its InitVelocityConstraints; the inverse
\* masses and inertias, stiffness, damping and dt being at least 0.
C12_MassesNonNegative ==
    /\ AfterInitializeVelocityConstraints =>
          \A i \in 1..m_count :
          \A k \in 1..b2_maxManifoldPoints :
             LET vc == m_velocityConstraints[i]
                 vcp == vc.points[k]
             IN  /\ RGe(vcp.normalMass, Zero)
                 /\ RGe(vcp.tangentMass, Zero)
                 /\ RLe(PointDenominators(vc, vcp).normal, Zero) => vcp.normalMass = Zero
                 /\ RLe(PointDenominators(vc, vcp).tangent, Zero) => vcp.tangentMass = Zero
    /\ AfterJointInit =>
          \A m \in EffectiveMasses :
             /\ RGe(m.mass, Zero)
             /\ RLe(m.denominator, Zero) => m.mass = Zero

\* InitVelocityConstraints has given a joint of two bodies without mass an
\* effective mass of 0, the contact beside it having a point at the centre
\* of a body (an arm of length zero) and masses of 0 too.
C12_NothingToInvert ==
    /\ AfterJointInit
    /\ \E m \in EffectiveMasses : m.denominator = Zero /\ m.mass = Zero
    /\ m_count = 1
    /\ \E k \in 1..b2_maxManifoldPoints :
          /\ k <= m_velocityConstraints[1].pointCount
          /\ m_velocityConstraints[1].points[k].rB = VZero
          /\ m_velocityConstraints[1].points[k].normalMass = Zero
          /\ PointDenominators(m_velocityConstraints[1],
                               m_velocityConstraints[1].points[k]).normal = Zero

\* InitVelocityConstraints has given a wheel joint with a spring and a
\* motor four effective masses above 0.
C12_WheelMasses ==
    /\ AfterJointInit
    /\ joint.type = "wheel"
    /\ \A m \in EffectiveMasses : RGt(m.mass, Zero) /\ RGt(m.denominator, Zero)

AfterInitialize == lastOp.op = "Initialize"
AfterWarmStart == lastOp.op = "WarmStart"

\* C13: Initialize gives every point of every manifold a starting
\* normalImpulse and tangentImpulse of dtRatio times the value stored in the
\* manifold point when warmStarting is true, and of 0 when it is false.
C13_StartingImpulses ==
    AfterInitialize =>
        \A i \in 1..m_count : \A j \in 1..b2_maxManifoldPoints :
           j <= manifolds[i].pointCount =>
              LET vcp == m_velocityConstraints[i].points[j]
                  cp == manifolds[i].points[j]
              IN  IF m_step.warmStarting
                  THEN /\ vcp.normalImpulse = RMul(m_step.dtRatio, cp.normalImpulse)
                       /\ vcp.tangentImpulse = RMul(m_step.dtRatio, cp.tangentImpulse)
                  ELSE /\ vcp.normalImpulse = Zero
                       /\ vcp.tangentImpulse = Zero

\* Initialize has warm started a point with half of the impulses the step
\* before stored, neither being 0.
C13_HalvedImpulses ==
    /\ AfterInitialize
    /\ m_step.warmStarting
    /\ m_step.dtRatio = <<1, 2>>
    /\ \E i \in 1..m_count : \E j \in 1..b2_maxManifoldPoints :
          /\ j <= manifolds[i].pointCount
          /\ RGt(manifolds[i].points[j].normalImpulse, Zero)
          /\ manifolds[i].points[j].tangentImpulse # Zero
          /\ m_velocityConstraints[i].points[j].normalImpulse
                # manifolds[i].points[j].normalImpulse

\* Initialize without warm starting has taken to 0 an impulse the step
\* before stored.
C13_ColdStartOverStored ==
    /\ AfterInitialize
    /\ ~m_step.warmStarting
    /\ \E i \in 1..m_count : \E j \in 1..b2_maxManifoldPoints :
          /\ j <= manifolds[i].pointCount
          /\ RGt(manifolds[i].points[j].normalImpulse, Zero)
          /\ m_velocityConstraints[i].points[j].normalImpulse = Zero

\* C14: WarmStart changes only the velocities of the bodies: the
\* accumulated normalImpulse and tangentImpulse of every point, the
\* positions of the bodies and the manifolds are as before the call.
C14_WarmStartOnlyVelocities ==
    AfterWarmStart =>
        /\ \A i \in 1..m_count : \A j \in 1..b2_maxManifoldPoints :
              /\ m_velocityConstraints[i].points[j].normalImpulse
                    = pre.vcs[i].points[j].normalImpulse
              /\ m_velocityConstraints[i].points[j].tangentImpulse
                    = pre.vcs[i].points[j].tangentImpulse
        /\ m_positions = pre.positions
        /\ manifolds = pre.manifolds

\* WarmStart has changed the velocity of a body with the starting impulses
\* of a contact, neither normal nor tangent impulse being 0.
C14_WarmStartedBody ==
    /\ AfterWarmStart
    /\ \E i \in 1..m_count : \E j \in 1..b2_maxManifoldPoints :
          /\ j <= m_velocityConstraints[i].pointCount
          /\ RGt(m_velocityConstraints[i].points[j].normalImpulse, Zero)
          /\ m_velocityConstraints[i].points[j].tangentImpulse # Zero
    /\ \E b \in DOMAIN m_velocities : m_velocities[b] # pre.velocities[b]

\* The velocity part of a step of the joint: InitVelocityConstraints and the
\* velocity iterations after it.  The positions are those
\* InitVelocityConstraints read.
InJointVelocityStep == AfterJointInit \/ AfterJointVelocity

\* The direction of a rope or distance joint is degenerate: the anchors are
\* no further apart than b2_linearSlop.
AnchorsTogether ==
    /\ joint.type \in {"rope", "distance"}
    /\ RLe(Length(AnchorSeparation(joint, m_positions[joint.m_bodyA].c,
                                   m_positions[joint.m_bodyB].c)),
           b2_linearSlop)

\* A side of a pulley is degenerate: the anchor of its body is no further
\* than 10 * b2_linearSlop from its ground anchor.
SideTogether(body, r, groundAnchor) ==
    /\ joint.type = "pulley"
    /\ RLe(Length(VSub(VAdd(m_positions[body].c, r), groundAnchor)),
           RMul(R(10), b2_linearSlop))

SideATogether == SideTogether(joint.m_bodyA, joint.m_rA, joint.m_groundAnchorA)
SideBTogether == SideTogether(joint.m_bodyB, joint.m_rB, joint.m_groundAnchorB)

\* The impulse InitVelocityConstraints starts the step with.
StartedImpulse ==
    IF m_step.warmStarting THEN RMul(pre.joint.m_impulse, m_step.dtRatio) ELSE Zero

\* C15: InitVelocityConstraints zeroes a degenerate axis (a separation of at
\* most b2_linearSlop for rope and distance, of at most 10 * b2_linearSlop
\* for a side of a pulley), and in that step the joint changes no velocity
\* along it: none for rope and distance, none of the body of that side for
\* a pulley.  The rope joint zeroes its mass and its accumulated impulse
\* too; the distance and pulley joints keep the impulse, warm started.
C15_DegenerateAxisZeroed ==
    InJointVelocityStep =>
        /\ (joint.type = "rope" /\ AnchorsTogether) =>
              /\ joint.m_u = VZero
              /\ joint.m_mass = Zero
              /\ joint.m_impulse = Zero
              /\ m_velocities = pre.velocities
        /\ (joint.type = "distance" /\ AnchorsTogether) =>
              /\ joint.m_u = VZero
              /\ m_velocities = pre.velocities
              /\ AfterJointInit => joint.m_impulse = StartedImpulse
        /\ SideATogether =>
              /\ joint.m_uA = VZero
              /\ m_velocities[joint.m_bodyA] = pre.velocities[joint.m_bodyA]
              /\ AfterJointInit => joint.m_impulse = StartedImpulse
        /\ SideBTogether =>
              /\ joint.m_uB = VZero
              /\ m_velocities[joint.m_bodyB] = pre.velocities[joint.m_bodyB]
              /\ AfterJointInit => joint.m_impulse = StartedImpulse

\* C15 as the specification words it: a degenerate axis leaves the joint
\* with an accumulated impulse of 0 and the velocities as they were.
C15_DegenerateDisablesJoint ==
    (AfterJointInit /\ (AnchorsTogether \/ SideATogether \/ SideBTogether)) =>
        /\ joint.m_impulse = Zero
        /\ m_velocities = pre.velocities

\* InitVelocityConstraints of a pulley whose side A is degenerate has kept
\* an accumulated impulse and warm started body B with it.
C15_PulleyPullsOtherSide ==
    /\ AfterJointInit
    /\ SideATogether
    /\ ~SideBTogether
    /\ joint.m_impulse # Zero
    /\ m_velocities[joint.m_bodyB] # pre.velocities[joint.m_bodyB]

\* InitVelocityConstraints of a rope joint whose anchors a position
\* iteration brought together has zeroed an accumulated impulse.
C15_RopeImpulseZeroed ==
    /\ AfterJointInit
    /\ joint.type = "rope"
    /\ AnchorsTogether
    /\ m_step.warmStarting
    /\ pre.joint.m_impulse # Zero
    /\ joint.m_impulse = Zero

\* InitVelocityConstraints of a distance joint whose anchors a position
\* iteration brought together has kept its accumulated impulse.
C15_DistanceImpulseKept ==
    /\ AfterJointInit
    /\ joint.type = "distance"
    /\ AnchorsTogether
    /\ joint.m_impulse # Zero

\* C16: SolvePositionConstraints of a distance joint with m_stiffness > 0
\* returns true and leaves the centre and the angle of every body as they
\* were.
C16_SoftDistanceSkipsPositions ==
    (AfterJointPosition /\ joint.type = "distance" /\ RGt(joint.m_stiffness, Zero)) =>
        /\ ret.value = TRUE
        /\ m_positions = pre.positions

\* SolvePositionConstraints of a soft distance joint has returned true with
\* its anchors further from the joint's length than b2_linearSlop.
C16_SoftAwayFromLength ==
    /\ AfterJointPosition
    /\ joint.type = "distance"
    /\ RGt(joint.m_stiffness, Zero)
    /\ RGe(RAbs(RSub(Length(AnchorSeparation(joint, m_positions[joint.m_bodyA].c,
                                             m_positions[joint.m_bodyB].c)),
                     joint.m_length)),
           b2_linearSlop)
    /\ ret.value = TRUE

\* A hard joint: every joint but a distance joint with m_stiffness > 0.
HardJoint == joint.type = "distance" => ~RGt(joint.m_stiffness, Zero)

\* C17: SolvePositionConstraints of a hard distance, rope or pulley joint
\* returns true exactly when the absolute position error |C| it measured is
\* less than b2_linearSlop; that of a wheel joint returns true exactly when
\* the error is at most b2_linearSlop.
C17_TrueWithinSlop ==
    (AfterJointPosition /\ HardJoint) =>
        IF joint.type = "wheel"
        THEN ret.value = RLe(RAbs(ret.C), b2_linearSlop)
        ELSE ret.value = RLt(RAbs(ret.C), b2_linearSlop)

\* C17 as the specification words it: every hard joint returns true exactly
\* when |C| < b2_linearSlop.
C17_TrueBelowSlop ==
    (AfterJointPosition /\ HardJoint) => ret.value = RLt(RAbs(ret.C), b2_linearSlop)

\* SolvePositionConstraints of a wheel joint has measured an error of
\* b2_linearSlop and returned true.
C17_WheelTrueAtSlop ==
    /\ AfterJointPosition
    /\ joint.type = "wheel"
    /\ RAbs(ret.C) = b2_linearSlop
    /\ ret.value = TRUE

\* SolvePositionConstraints of a distance, a rope or a pulley joint has
\* measured an error of b2_linearSlop and returned false.
C17_FalseAtSlop(type) ==
    /\ AfterJointPosition
    /\ HardJoint
    /\ joint.type = type
    /\ RAbs(ret.C) = b2_linearSlop
    /\ ret.value = FALSE

C17_DistanceFalseAtSlop == C17_FalseAtSlop("distance")
C17_RopeFalseAtSlop == C17_FalseAtSlop("rope")
C17_PulleyFalseAtSlop == C17_FalseAtSlop("pulley")

\* SolvePositionConstraints has measured an error between 0 and
\* b2_linearSlop and returned true.
C17_TrueBelow(type) ==
    /\ AfterJointPosition
    /\ HardJoint
    /\ joint.type = type
    /\ RGt(RAbs(ret.C), Zero)
    /\ RLt(RAbs(ret.C), b2_linearSlop)
    /\ ret.value = TRUE

C17_DistanceTrueBelow == C17_TrueBelow("distance")
C17_RopeTrueBelow == C17_TrueBelow("rope")
C17_PulleyTrueBelow == C17_TrueBelow("pulley")
C17_WheelTrueBelow == C17_TrueBelow("wheel")

\* The accumulated impulses of a joint, by name.
JointImpulses(j) ==
    IF j.type = "wheel"
    THEN [m_impulse |-> j.m_impulse, m_springImpulse |-> j.m_springImpulse,
          m_motorImpulse |-> j.m_motorImpulse, m_lowerImpulse |-> j.m_lowerImpulse,
          m_upperImpulse |-> j.m_upperImpulse]
    ELSE [m_impulse |-> j.m_impulse]

\* C18: with warmStarting false, InitVelocityConstraints of a joint leaves
\* every accumulated impulse of the joint at 0 and the linear and angular
\* velocities of both bodies as they were.
C18_ColdStartResets ==
    (AfterJointInit /\ ~m_step.warmStarting) =>
        /\ \A name \in DOMAIN JointImpulses(joint) : JointImpulses(joint)[name] = Zero
        /\ m_velocities = pre.velocities

\* InitVelocityConstraints without warm starting has reset impulses the
\* step before accumulated: of a wheel joint, and of a joint of each other
\* type.
C18_ResetAfterStep(type) ==
    /\ AfterJointInit
    /\ ~m_step.warmStarting
    /\ joint.type = type
    /\ pre.joint.m_impulse # Zero
    /\ joint.m_impulse = Zero

C18_WheelReset ==
    /\ C18_ResetAfterStep("wheel")
    /\ pre.joint.m_springImpulse # Zero
    /\ pre.joint.m_motorImpulse # Zero
    /\ pre.joint.m_lowerImpulse # Zero \/ pre.joint.m_upperImpulse # Zero

C18_RopeReset == C18_ResetAfterStep("rope")
C18_DistanceReset == C18_ResetAfterStep("distance")
C18_PulleyReset == C18_ResetAfterStep("pulley")

\* InitVelocityConstraints has applied impulses to the velocities: the
\* joint is no rope joint whose anchors are together.
WarmStarted ==
    /\ AfterJointInit
    /\ m_step.warmStarting
    /\ ~(joint.type = "rope" /\ AnchorsTogether)

\* C19: with warmStarting true, InitVelocityConstraints multiplies every
\* accumulated impulse it applies to the velocities by dtRatio: m_impulse,
\* and for the wheel joint m_springImpulse, m_motorImpulse, m_lowerImpulse
\* and m_upperImpulse too.
C19_EveryImpulseScaled ==
    WarmStarted =>
        \A name \in DOMAIN JointImpulses(joint) :
           JointImpulses(joint)[name] = RMul(JointImpulses(pre.joint)[name], m_step.dtRatio)

\* What the code does: every accumulated impulse but m_lowerImpulse and
\* m_upperImpulse is multiplied by dtRatio, and these two are applied as
\* they were.
C19_LimitImpulsesNotScaled ==
    WarmStarted =>
        \A name \in DOMAIN JointImpulses(joint) :
           JointImpulses(joint)[name] =
              IF name \in {"m_lowerImpulse", "m_upperImpulse"}
              THEN JointImpulses(pre.joint)[name]
              ELSE RMul(JointImpulses(pre.joint)[name], m_step.dtRatio)

\* InitVelocityConstraints of a wheel joint has halved the other impulses
\* and applied a limit impulse of the step before as it was.
C19_LimitImpulseApplied ==
    /\ WarmStarted
    /\ joint.type = "wheel"
    /\ m_step.dtRatio = <<1, 2>>
    /\ pre.joint.m_impulse # Zero
    /\ pre.joint.m_lowerImpulse # Zero \/ pre.joint.m_upperImpulse # Zero
    /\ joint.m_lowerImpulse = pre.joint.m_lowerImpulse
    /\ joint.m_upperImpulse = pre.joint.m_upperImpulse
    /\ m_velocities # pre.velocities

\* The velocity error of a sub-constraint of the wheel joint at the
\* velocities loc.
WheelCdotOf(name, j, loc) ==
    CASE name = "spring" -> WheelAxialCdot(j, loc)
      [] name = "motor" -> WheelMotorCdot(j, loc)
      [] name = "lower" -> WheelAxialCdot(j, loc)
      [] name = "upper" -> WheelUpperCdot(j, loc)
      [] name = "perpendicular" -> WheelPerpendicularCdot(j, loc)

\* The sub-constraints of a wheel joint in their order: the limits are
\* solved when m_enableLimit.
WheelOrder ==
    IF joint.m_enableLimit
    THEN <<"spring", "motor", "lower", "upper", "perpendicular">>
    ELSE <<"spring", "motor", "perpendicular">>

AfterWheelPass == AfterJointVelocity /\ joint.type = "wheel"

\* C20: a SolveVelocityConstraints pass of the wheel joint solves its
\* sub-constraints in the order spring, motor, lower limit, upper limit,
\* point-to-line, and each computes its velocity error from the velocities
\* as the sub-constraints before it in the pass left them.
C20_WheelOrderAndVelocities ==
    AfterWheelPass =>
        /\ [k \in DOMAIN trace |-> trace[k].name] = WheelOrder
        /\ trace[1].before = PreJointLocal
        /\ trace[Len(trace)].after = JointLocal(joint)
        /\ \A k \in DOMAIN trace :
              /\ k > 1 => trace[k].before = trace[k - 1].after
              /\ trace[k].Cdot = WheelCdotOf(trace[k].name, joint, trace[k].before)

\* A pass of a wheel joint with limits in which the spring, the motor, a
\* limit and the point-to-line constraint each changed the velocities, and
\* the limit and the point-to-line constraint measured another velocity
\* error than the velocities at the start of the pass would have given.
C20_EveryBlockActs ==
    /\ AfterWheelPass
    /\ Len(trace) = 5
    /\ trace[1].after # trace[1].before
    /\ trace[2].after # trace[2].before
    /\ \E k \in {3, 4} :
          /\ trace[k].after # trace[k].before
          /\ trace[k].Cdot # WheelCdotOf(trace[k].name, joint, PreJointLocal)
    /\ trace[5].after # trace[5].before
    /\ trace[5].Cdot # WheelCdotOf("perpendicular", joint, PreJointLocal)


\* ------------------------------------------- the properties of the solver

\* C21: over any sequence of Initialize calls on one solver the lengths of
\* m_positionConstraints and m_velocityConstraints never decrease, each is
\* at least the contact count after the call, and a call that grows an array
\* leaves it with max(2 * old length, contact count) elements.
ArrayGrowth(old, new, count) ==
    /\ new >= old
    /\ new >= count
    /\ old < count => new = (IF 2 * old > count THEN 2 * old ELSE count)
    /\ old >= count => new = old

InitializeCalled == lastOp'.op = "Initialize" /\ steps' = steps + 1

C21_ArraysGrowGeometrically ==
    [][/\ Len(m_velocityConstraints') >= Len(m_velocityConstraints)
       /\ Len(m_positionConstraints') >= Len(m_positionConstraints)
       /\ InitializeCalled =>
             /\ ArrayGrowth(Len(m_velocityConstraints), Len(m_velocityConstraints'), m_count')
             /\ ArrayGrowth(Len(m_positionConstraints), Len(m_positionConstraints'), m_count')]_vars

\* An Initialize doubled both arrays for a count between the old length and
\* its double.
C21_DoubledPastCount ==
    /\ lastOp.op = "Initialize"
    /\ Len(m_velocityConstraints) = 2 * Len(pre.vcs)
    /\ Len(m_positionConstraints) = Len(m_velocityConstraints)
    /\ m_count > Len(pre.vcs)
    /\ m_count < Len(m_velocityConstraints)

\* An Initialize grew the arrays to a count above the double of the old length.
C21_GrownToCount ==
    /\ lastOp.op = "Initialize"
    /\ m_count > 2 * Len(pre.vcs)
    /\ Len(m_velocityConstraints) = m_count
    /\ Len(m_positionConstraints) = m_count

\* An Initialize for fewer contacts than the arrays hold left their lengths.
C21_KeptAboveCount ==
    /\ lastOp.op = "Initialize"
    /\ m_count < Len(pre.vcs)
    /\ Len(pre.vcs) > MaxContacts
    /\ Len(m_velocityConstraints) = Len(pre.vcs)


\* The velocities a pass had written when it came to contact i.
RECURSIVE VelocitiesBefore(_)
VelocitiesBefore(i) ==
    IF i = 1 THEN pre.velocities
    ELSE WriteVelocities(VelocitiesBefore(i - 1), pre.vcs[i - 1], trace[i - 1].loc)

\* The friction steps of all the points of contact i, run on the
\* constraint as the pass found it.
FrictionSteps(i) ==
    ForPoints(SolveTangentPoint, pre.vcs[i],
              LocalOf(VelocitiesBefore(i), pre.vcs[i]), 1, pre.vcs[i].pointCount)

FrictionFirst(i, t) ==
    /\ trace[i].tangentLoc = t.loc
    /\ \A j \in 1..pre.vcs[i].pointCount :
          /\ t.vc.points[j].normalImpulse = pre.vcs[i].points[j].normalImpulse
          /\ m_velocityConstraints[i].points[j].tangentImpulse = t.vc.points[j].tangentImpulse
          /\ RLe(RAbs(t.vc.points[j].tangentImpulse),
                 RMul(pre.vcs[i].friction, pre.vcs[i].points[j].normalImpulse))

\* C22: within a SolveVelocityConstraints pass the friction impulses of all
\* the points of a contact are solved before any of its normal impulses:
\* the velocities between the two loops and the tangent impulses the pass
\* leaves are those of the friction steps alone, which read the normal
\* impulses as the pass found them, and each |tangentImpulse| is at most
\* friction times that normal impulse.
C22_FrictionBeforeNormal ==
    AfterVelocityPass => \A i \in 1..m_count : FrictionFirst(i, FrictionSteps(i))

\* A pass has changed both normal impulses of a contact with two points
\* after clamping the friction impulse of its second point to the limit of
\* the smaller normal impulse the pass found.
C22_SecondPointClampedToEarlierNormal ==
    /\ AfterVelocityPass
    /\ \E i \in 1..m_count :
          LET vc == m_velocityConstraints[i]
              was == pre.vcs[i]
          IN  /\ vc.pointCount = 2
              /\ vc.points[1].normalImpulse # was.points[1].normalImpulse
              /\ vc.points[1].tangentImpulse # was.points[1].tangentImpulse
              /\ RGt(was.points[2].normalImpulse, Zero)
              /\ RGt(vc.points[2].normalImpulse, was.points[2].normalImpulse)
              /\ RAbs(vc.points[2].tangentImpulse) =
                     RMul(vc.friction, was.points[2].normalImpulse)


\* ------------------------------------ the properties of position correction

\* The position error of joint j at the positions ploc, before any clamp:
\* the distance of the anchors less the rest length (distance) or less the
\* greatest length (rope), the pulley's constant less the lengths of its
\* two sides, the wheel's offset from its axis.
RawAnchorError(j, ploc, rest) ==
    RSub(Length(AnchorSeparation(j, ploc.cA, ploc.cB)), rest)

RawPulleyError(j, ploc) ==
    RSub(RSub(j.m_constant, Length(VSub(VAdd(ploc.cA, j.m_rA), j.m_groundAnchorA))),
         RMul(j.m_ratio, Length(VSub(VAdd(ploc.cB, j.m_rB), j.m_groundAnchorB))))

RawWheelOffset(j, ploc) ==
    Dot(AnchorSeparation(j, ploc.cA, ploc.cB),
        RotMulVec2(Rot(ploc.aA), j.m_localYAxisA))

RawPositionError(j, ploc) ==
    CASE j.type = "distance" -> RawAnchorError(j, ploc, j.m_length)
      [] j.type = "rope" -> RawAnchorError(j, ploc, j.m_maxLength)
      [] j.type = "pulley" -> RawPulleyError(j, ploc)
      [] j.type = "wheel" -> RawWheelOffset(j, ploc)

ErrorBefore == RawPositionError(WithArms(pre.joint, PreJointPosLocal.aA, PreJointPosLocal.aB),
                                PreJointPosLocal)

\* How far the centre of body B moved in the last operation.
MovedBy == VSub(m_positions[joint.m_bodyB].c, pre.positions[joint.m_bodyB].c)

\* How far an error of b2_maxLinearCorrection moves the centre of body B of
\* a distance or rope joint.
MostMoved == RMul(RMul(pre.joint.m_invMassB, pre.joint.m_mass), b2_maxLinearCorrection)

\* C23 as stated: SolvePositionConstraints of every joint derives its
\* pseudo-impulse from an error C within [-b2_maxLinearCorrection,
\* b2_maxLinearCorrection].
C23_EveryErrorClamped ==
    (AfterJointPosition /\ HardJoint) => RLe(RAbs(ret.C), b2_maxLinearCorrection)

\* C23: SolvePositionConstraints of a hard distance joint derives its
\* pseudo-impulse from the error clamped to [-b2_maxLinearCorrection,
\* b2_maxLinearCorrection] and that of a rope joint from the error clamped
\* to [0, b2_maxLinearCorrection], so neither moves body B further than an
\* error of b2_maxLinearCorrection does; the pulley joint and the wheel joint
\* derive theirs from the whole error.
C23_DistanceAndRopeClamp ==
    (AfterJointPosition /\ HardJoint) =>
        /\ joint.type = "distance" =>
              ret.C = b2Clamp(ErrorBefore, RNeg(b2_maxLinearCorrection), b2_maxLinearCorrection)
        /\ joint.type = "rope" =>
              ret.C = b2Clamp(ErrorBefore, Zero, b2_maxLinearCorrection)
        /\ joint.type \in {"distance", "rope"} =>
              /\ RLe(RAbs(ret.C), b2_maxLinearCorrection)
              /\ RLe(RAbs(MovedBy[1]), MostMoved) /\ RLe(RAbs(MovedBy[2]), MostMoved)
              /\ IsNum(Length(MovedBy)) => RLe(Length(MovedBy), MostMoved)
        /\ joint.type = "pulley" => ret.C = ErrorBefore
        /\ (joint.type = "wheel" /\ ~joint.m_enableLimit) => ret.C = RAbs(ErrorBefore)

\* A pulley joint has corrected an error beyond b2_maxLinearCorrection whole,
\* moving body B.
C23_PulleyCorrectsWholeError ==
    /\ AfterJointPosition
    /\ joint.type = "pulley"
    /\ RGt(RAbs(ret.C), b2_maxLinearCorrection)
    /\ ret.C = ErrorBefore
    /\ m_positions[joint.m_bodyB] # pre.positions[joint.m_bodyB]

\* A wheel joint has corrected an offset beyond b2_maxLinearCorrection whole.
C23_WheelCorrectsWholeError ==
    /\ AfterJointPosition
    /\ joint.type = "wheel"
    /\ RGt(ret.C, b2_maxLinearCorrection)
    /\ m_positions[joint.m_bodyB] # pre.positions[joint.m_bodyB]

\* A distance joint has clamped an error beyond b2_maxLinearCorrection, and
\* moved body B as far as the clamped error does; so has a rope joint.
C23_ClampedTo(type) ==
    /\ AfterJointPosition
    /\ HardJoint
    /\ joint.type = type
    /\ RGt(RAbs(ErrorBefore), b2_maxLinearCorrection)
    /\ RAbs(ret.C) = b2_maxLinearCorrection
    /\ Length(MovedBy) = MostMoved
    /\ RGt(MostMoved, Zero)

C23_DistanceClamped == C23_ClampedTo("distance")
C23_RopeClamped == C23_ClampedTo("rope")


AfterEitherPositionPass ==
    lastOp.op \in {"SolvePositionConstraints", "SolveTOIPositionConstraints"}

\* C24: in SolvePositionConstraints and SolveTOIPositionConstraints the
\* correction C of every contact point lies in [-b2_maxLinearCorrection, 0]
\* and its pseudo-impulse is >= 0; a point whose separation is >=
\* -b2_linearSlop has C = 0 and changes no position and no angle, and a pass
\* of such points alone leaves the positions as they were.
C24_CorrectionOnlyPushesApart ==
    AfterEitherPositionPass =>
        /\ \A k \in DOMAIN ret.log :
              /\ RGe(ret.log[k].C, RNeg(b2_maxLinearCorrection))
              /\ RLe(ret.log[k].C, Zero)
              /\ RGe(ret.log[k].impulse, Zero)
              /\ RGe(ret.log[k].separation, RNeg(b2_linearSlop)) =>
                    /\ ret.log[k].C = Zero
                    /\ ret.log[k].impulse = Zero
                    /\ ~ret.log[k].moved
        /\ (\A k \in DOMAIN ret.log : RGe(ret.log[k].separation, RNeg(b2_linearSlop))) =>
              m_positions = pre.positions

\* A pass has clamped the correction of one point to -b2_maxLinearCorrection
\* and moved bodies with it, and has left another point, whose separation
\* was at least -b2_linearSlop, alone.
C24_ClampedAndLeftAlone ==
    /\ AfterEitherPositionPass
    /\ \E k \in DOMAIN ret.log :
          /\ ret.log[k].C = RNeg(b2_maxLinearCorrection)
          /\ RGt(ret.log[k].impulse, Zero)
          /\ ret.log[k].moved
    /\ \E k \in DOMAIN ret.log :
          /\ RGe(ret.log[k].separation, RNeg(b2_linearSlop))
          /\ ret.log[k].C = Zero
          /\ ~ret.log[k].moved

\* The same of SolveTOIPositionConstraints.
C24_TOIClampedAndLeftAlone ==
    /\ C24_ClampedAndLeftAlone
    /\ lastOp.op = "SolveTOIPositionConstraints"


C25_BlockSolvedInSecondStep ==
    /\ AfterVelocityPass
    /\ steps = 2
    /\ \E i \in BlockSolved : trace[i].case \in 1..4


\* ------------------------------------- the properties of the wheel's settings

\* C26: after every SolveVelocityConstraints pass of a wheel joint whose
\* m_maxMotorTorque is >= 0, |m_motorImpulse| <= dt * m_maxMotorTorque; and
\* when the motor was disabled at InitVelocityConstraints, m_motorImpulse is
\* 0 after it and after every velocity pass of that step.
C26_MotorImpulseBounded ==
    joint.type = "wheel" =>
        /\ (AfterJointVelocity /\ RGe(joint.m_maxMotorTorque, Zero)) =>
              RLe(RAbs(joint.m_motorImpulse), RMul(m_step.dt, joint.m_maxMotorTorque))
        /\ (InJointVelocityStep /\ ~joint.m_enableMotor) => joint.m_motorImpulse = Zero

\* A pass has clamped the motor impulse to dt * m_maxMotorTorque, the
\* impulse that takes the bodies to the motor speed being beyond it.
C26_MotorClamped ==
    /\ joint.type = "wheel"
    /\ AfterJointVelocity
    /\ joint.m_enableMotor
    /\ RAbs(joint.m_motorImpulse) = RMul(m_step.dt, joint.m_maxMotorTorque)
    /\ RGt(joint.m_motorImpulse, Zero)
    /\ \E k \in DOMAIN trace :
          /\ trace[k].name = "motor"
          /\ RGt(RAbs(RAdd(pre.joint.m_motorImpulse,
                           RNeg(RMul(joint.m_motorMass, trace[k].Cdot)))),
                 RMul(m_step.dt, joint.m_maxMotorTorque))

\* InitVelocityConstraints has zeroed the impulse that the motor had
\* accumulated before EnableMotor(false), in a warm-started step.
C26_DisabledMotorZeroed ==
    /\ joint.type = "wheel"
    /\ AfterJointInit
    /\ m_step.warmStarting
    /\ ~joint.m_enableMotor
    /\ pre.joint.m_motorImpulse # Zero
    /\ joint.m_motorImpulse = Zero

\* A pass of a step that began with the motor disabled has left the motor
\* impulse 0 with the bodies not turning at the motor speed.
C26_DisabledMotorStaysZero ==
    /\ joint.type = "wheel"
    /\ AfterJointVelocity
    /\ ~joint.m_enableMotor
    /\ joint.m_motorImpulse = Zero
    /\ \E k \in DOMAIN trace : trace[k].name = "motor" /\ trace[k].Cdot # Zero


AfterSetter(op) == joint.type = "wheel" /\ lastOp.op = op

\* What a setter that set something new has done: the limit impulses are
\* 0, both bodies are awake, and the rest of the joint is as it was but for
\* the fields named.
SetterActed(was) ==
    /\ joint = [was EXCEPT !.m_lowerImpulse = Zero, !.m_upperImpulse = Zero]
    /\ bodies[joint.m_bodyA].awake
    /\ bodies[joint.m_bodyB].awake

\* What a setter that set what was there has done: nothing.
SetterIdle ==
    /\ joint = pre.joint
    /\ \A i \in DOMAIN bodies : bodies[i].awake = lastOp.awake[i]

\* C27: m_lowerImpulse and m_upperImpulse of a wheel joint are >= 0 in
\* every state; both are 0 after an InitVelocityConstraints that ran with the
\* limit disabled; EnableLimit and SetLimits set both to 0 and wake both
\* bodies when the value they set differs from the one there, and change
\* nothing when it is equal.
C27_LimitImpulses ==
    joint.type = "wheel" =>
        /\ RGe(joint.m_lowerImpulse, Zero)
        /\ RGe(joint.m_upperImpulse, Zero)
        /\ (AfterJointInit /\ ~joint.m_enableLimit) =>
              joint.m_lowerImpulse = Zero /\ joint.m_upperImpulse = Zero
        /\ AfterSetter("EnableLimit") =>
              IF lastOp.arg # pre.joint.m_enableLimit
              THEN SetterActed([pre.joint EXCEPT !.m_enableLimit = lastOp.arg])
              ELSE SetterIdle
        /\ AfterSetter("SetLimits") =>
              IF \/ lastOp.arg[1] # pre.joint.m_lowerTranslation
                 \/ lastOp.arg[2] # pre.joint.m_upperTranslation
              THEN SetterActed([pre.joint EXCEPT !.m_lowerTranslation = lastOp.arg[1],
                                                 !.m_upperTranslation = lastOp.arg[2]])
              ELSE SetterIdle

\* A setter has taken a limit impulse above 0 to 0 and woken two sleeping
\* bodies.
C27_SetterReset(op) ==
    /\ AfterSetter(op)
    /\ \/ RGt(pre.joint.m_lowerImpulse, Zero)
       \/ RGt(pre.joint.m_upperImpulse, Zero)
    /\ joint.m_lowerImpulse = Zero /\ joint.m_upperImpulse = Zero
    /\ \A i \in DOMAIN bodies : ~lastOp.awake[i] /\ bodies[i].awake

C27_EnableLimitReset == C27_SetterReset("EnableLimit")
C27_SetLimitsReset == C27_SetterReset("SetLimits")

\* A setter has set the value there, with a limit impulse above 0 and the
\* bodies asleep, and changed nothing.
C27_SetterIdle(op) ==
    /\ AfterSetter(op)
    /\ joint = pre.joint
    /\ RGt(joint.m_lowerImpulse, Zero) \/ RGt(joint.m_upperImpulse, Zero)
    /\ \A i \in DOMAIN bodies : ~bodies[i].awake

C27_EnableLimitIdle == C27_SetterIdle("EnableLimit")
C27_SetLimitsIdle == C27_SetterIdle("SetLimits")


\* C29: for every interleaving of b2SetBlockSolve with the solver's operations,
\* SolveVelocityConstraints runs the 2-point block branch only on a contact
\* whose K and normalMass InitializeVelocityConstraints built and inverted in
\* the same step, never on the zeroed matrices Initialize leaves.
KBuilt(vc) ==
    /\ vc.K = Mat(<<BlockK(vc).k11, BlockK(vc).k12>>, <<BlockK(vc).k12, BlockK(vc).k22>>)
    /\ vc.K # MatZero
    /\ vc.normalMass = MatGetInverse(vc.K)

C29_BlockBranchOnlyOnBuiltK ==
    AfterVelocityPass =>
        \A i \in BlockSolved : KBuilt(m_velocityConstraints[i])

\* Block solving was off in InitializeVelocityConstraints and on in the pass:
\* the block branch has run on the zeroed K and normalMass of a contact of 2
\* points.
C29_BlockBranchOnZeroedK ==
    /\ AfterVelocityPass
    /\ \E i \in BlockSolved :
          /\ m_velocityConstraints[i].K = MatZero
          /\ m_velocityConstraints[i].normalMass = MatZero

\* With block solving on in both operations of a step, a block-solved contact
\* has its K built.
C29_BlockBranchOnBuiltK ==
    /\ AfterVelocityPass
    /\ \E i \in BlockSolved : KBuilt(m_velocityConstraints[i])


\* ------------------------------------ the properties of bodies without mass

WithoutMass(i) == bodies[i].invMass = Zero /\ bodies[i].invI = Zero

\* The operations of the contact solver and of the joints that write
\* velocities or positions.
FrameOps ==
    {"WarmStart", "SolveVelocityConstraints", "SolvePositionConstraints",
     "SolveTOIPositionConstraints", "JointInitVelocityConstraints",
     "JointSolveVelocityConstraints", "JointSolvePositionConstraints"}

Held(i) == m_velocities[i] = pre.velocities[i] /\ m_positions[i] = pre.positions[i]

\* The bodies the operation has solved a constraint of: those of the joint, or
\* those of the contacts.
ConstrainedWith(i) ==
    {k \in DOMAIN bodies \ {i} :
        \/ joint.type # "none" /\ {i, k} = {joint.m_bodyA, joint.m_bodyB}
        \/ \E c \in 1..Len(contacts) : {i, k} = {contacts[c].bodyA, contacts[c].bodyB}}

\* C30: a body whose inverse mass and inverse inertia are both 0 keeps its
\* linear velocity, angular velocity, position and angle through WarmStart,
\* SolveVelocityConstraints, SolvePositionConstraints and
\* SolveTOIPositionConstraints of the contact solver and through
\* InitVelocityConstraints, SolveVelocityConstraints and
\* SolvePositionConstraints of the distance, rope, pulley and wheel joints.
C30_BodiesWithoutMassHeld ==
    lastOp.op \in FrameOps =>
        \A i \in DOMAIN bodies : WithoutMass(i) => Held(i)

\* The operation has changed the velocity or the position of the body on the
\* other side of a constraint of a body without mass, as the first (A) or the
\* second (B) body of it, and left the body without mass as it was.
C30_HeldWhileOtherMoved(op, i) ==
    /\ lastOp.op = op
    /\ i \in DOMAIN bodies
    /\ WithoutMass(i)
    /\ Held(i)
    /\ \E k \in ConstrainedWith(i) : ~Held(k)

C30_HeldInWarmStart ==
    C30_HeldWhileOtherMoved("WarmStart", 1) /\ m_velocities[1] # Velocity(VZero, Zero)
C30_HeldInVelocityPass ==
    /\ C30_HeldWhileOtherMoved("SolveVelocityConstraints", 1)
    /\ \E c \in 1..Len(contacts) : contacts[c].bodyB = 1
C30_HeldInPositionPass ==
    /\ C30_HeldWhileOtherMoved("SolvePositionConstraints", 1)
    /\ \E c \in 1..Len(contacts) : contacts[c].bodyB = 1
C30_HeldInTOIPass == C30_HeldWhileOtherMoved("SolveTOIPositionConstraints", 1)
C30_HeldByJoint(op, type, i) == C30_HeldWhileOtherMoved(op, i) /\ joint.type = type
C30_HeldInRopeInit == C30_HeldByJoint("JointInitVelocityConstraints", "rope", 1)
C30_HeldInRopeVelocity == C30_HeldByJoint("JointSolveVelocityConstraints", "rope", 2)
C30_HeldInDistanceVelocity == C30_HeldByJoint("JointSolveVelocityConstraints", "distance", 1)
C30_HeldInPulleyVelocity == C30_HeldByJoint("JointSolveVelocityConstraints", "pulley", 2)
C30_HeldInWheelVelocity == C30_HeldByJoint("JointSolveVelocityConstraints", "wheel", 1)
C30_HeldInRopePosition == C30_HeldByJoint("JointSolvePositionConstraints", "rope", 1)
C30_HeldInDistancePosition == C30_HeldByJoint("JointSolvePositionConstraints", "distance", 2)
C30_HeldInPulleyPosition == C30_HeldByJoint("JointSolvePositionConstraints", "pulley", 1)
C30_HeldInWheelPosition == C30_HeldByJoint("JointSolvePositionConstraints", "wheel", 2)
C30_HeldInWheelInit == C30_HeldByJoint("JointInitVelocityConstraints", "wheel", 2)


\* ------------------------------------ the properties of solvers side by side

\* The positions, velocities and impulses a solver has reached: those of its
\* island, the accumulated impulses of its constraints and the impulses
\* stored in its manifolds.
Outcome(inst) ==
    [positions |-> inst.positions,
     velocities |-> inst.velocities,
     impulses |-> [i \in 1..inst.count |->
                      [j \in 1..b2_maxManifoldPoints |->
                          <<inst.vcs[i].points[j].normalImpulse,
                            inst.vcs[i].points[j].tangentImpulse>>]],
     stored |-> [i \in DOMAIN inst.manifolds |->
                    [j \in 1..b2_maxManifoldPoints |->
                        <<inst.manifolds[i].points[j].normalImpulse,
                          inst.manifolds[i].points[j].tangentImpulse>>]]]

\* C28: two contact solvers on islands of their own share no state: in every
\* interleaving of their whole operations, each solver has, after each of
\* its operations and so at the end, the positions, velocities and impulses
\* it has when its operations run alone, although both use the same static
\* vectors.
C28_SolversShareNoState ==
    \A k \in DOMAIN solvers :
        Outcome(solvers[k]) = Outcome(RunAlone(solvers[k].def, solvers[k].at).inst)

\* Both solvers are through all their operations, and the last of them, a
\* pass over the positions by a solver that has also solved velocities,
\* found the statics of the velocity and of the position pass as the other
\* solver left them and not as it finds them alone; the solver moved a body
\* and changed a velocity.
C28_FinishedOnStaticsOfTheOther ==
    /\ Len(solvers) = 2
    /\ \A k \in 1..2 : solvers[k].at = Len(solvers[k].def.script)
    /\ lastOp.op = "SolvePositionConstraints"
    /\ \E k \in 1..2 :
          /\ lastOp.arg = k
          /\ lastOp.entered.P # RunAlone(solvers[k].def, solvers[k].at - 1).s.P
          /\ lastOp.entered.psm # RunAlone(solvers[k].def, solvers[k].at - 1).s.psm
          /\ lastOp.entered.t0 # RunAlone(solvers[k].def, solvers[k].at - 1).s.t0
          /\ solvers[k].velocities # solvers[k].def.velocities
          /\ solvers[k].positions # solvers[k].def.positions

=============================================================================
